---- MODULE Spec2Model ----
(***************************************************************************)
(* State machine of the VehicleAnalyzer component                          *)
(* (src/components/VehicleAnalyzer.tsx): the detection session of one      *)
(* media item and the continuous detection loop for video, together with   *)
(* the parts of the browser the component talks to (the video element, its *)
(* event tasks and play() promises, requestAnimationFrame, the detector).  *)
(*                                                                         *)
(* Every handler of the component is a function from a snapshot of the     *)
(* state to the state after the handler returned; React state and refs are *)
(* fields of the snapshot.  An async function is split at its only real    *)
(* suspension point, the detector call: the part before the await and the  *)
(* continuation that runs when the detector settles.                       *)
(***************************************************************************)
EXTENDS Integers, Sequences, FiniteSets, Bags, TLC

\* ---- bounds of the exploration ----
MaxMedia == 1          \* media items loaded after the initial one
MaxTime == 1           \* duration of a video: playback positions 0..MaxTime
MaxPreds == 1          \* predictions in one detector result
MaxLoops == 2          \* loop chains: loop passes in flight + pending frame callbacks
MaxOneShot == 1        \* manual (or image) passes in flight
MaxTasks == 2          \* queued media element tasks
MaxPlayPromises == 1   \* unsettled play() promises

VARIABLES
  model,                  \* useState model: NoModel or "loaded"
  loading,                \* useState loading
  analyzing,              \* useState analyzing
  detectedVehicles,       \* useState detectedVehicles: sequence of records
  isVideo,                \* useState isVideo
  showAlert,              \* useState showAlert
  alertMessage,           \* useState alertMessage
  showUploader,           \* useState showUploader
  fileUrl,                \* useState fileUrl: identity of the active media
  hasAttemptedDetection,  \* useState hasAttemptedDetection
  continuousDetection,    \* useState continuousDetection
  lastDetectionTimestamp, \* useState lastDetectionTimestamp: Null or a string
  animationFrameRef,      \* useRef animationFrameRef: 0 is undefined
  continuousDetectionRef, \* useRef continuousDetectionRef
  paused,                 \* video element: paused
  ended,                  \* video element: ended
  currentTime,            \* video element: playback position
  mediaTasks,             \* queued tasks of the media element (events, promise settlement)
  playPending,            \* play() promises no task has taken yet
  rafPending,             \* ids of requested animation frames not yet run or cancelled
  passes,                 \* bag of detection passes awaiting the detector
  loadPending,            \* the load event of the active image has not fired yet
  \* one call of extractDominantColorWithDebug: its parameter, locals and result
  vehicleType,            \* parameter vehicleType
  strategyIndex,          \* position of the for loop over strategies: 0..3
  colorCounts,            \* local colorCounts of the region analysed last
  bestResult,             \* local bestResult: NoResult or a result
  colorData,              \* the value the call returned: NoResult while it runs
  \* one still image on its way through standardizeImage and the bbox rescale
  imageElement,           \* naturalWidth and naturalHeight of the image
  standardizedCanvas,     \* the canvas standardizeImage returned: NoCanvas before
  detection,              \* a prediction of the detector on the canvas: NoBox before
  adjustedBbox,           \* the prediction's bbox after the rescale: NoBox before
  \* one pixel on its way through getAdvancedColorName
  pixel,                  \* r, g, b of the pixel
  pixelColorName          \* the colorName the pixel was given: "" before

sessionVars == << model, loading, analyzing, detectedVehicles, isVideo, showAlert,
                  alertMessage, showUploader, fileUrl, hasAttemptedDetection,
                  continuousDetection, lastDetectionTimestamp, animationFrameRef,
                  continuousDetectionRef, paused, ended, currentTime, mediaTasks,
                  playPending, rafPending, passes, loadPending >>

extractorVars == << vehicleType, strategyIndex, colorCounts, bestResult, colorData >>

scalingVars == << imageElement, standardizedCanvas, detection, adjustedBbox >>

pixelVars == << pixel, pixelColorName >>

vars == << sessionVars, extractorVars, scalingVars, pixelVars >>

NoModel == "null"
Null == "null"

\* the alert texts
MsgNoVehiclesImage == "No vehicles detected in this image."
MsgErrorImage == "An error occurred during detection. Please try another image."
MsgNoVehiclesFrame == "No vehicles detected in this frame."
MsgErrorVideo == "An error occurred during detection."
MsgPlayback == "Could not start video playback for auto-detection. Try playing the video manually first."

vehicleClasses ==
  {"car", "truck", "bus", "motorcycle", "bicycle", "airplane", "boat", "train"}

\* classes the detector is let to report here: one vehicle, one non-vehicle
DetectorClasses == {"car", "person"}

RECURSIVE SeqsUpTo(_, _)
SeqsUpTo(S, n) ==
  IF n = 0 THEN {<< >>}
  ELSE LET shorter == SeqsUpTo(S, n - 1)
       IN  shorter \cup {Append(q, c) : q \in {r \in shorter : Len(r) = n - 1}, c \in S}

\* what a detector call can settle to: a list of predictions, or a rejection
Outcomes ==
  {[ok |-> TRUE, preds |-> q] : q \in SeqsUpTo(DetectorClasses, MaxPreds)}
    \cup {[ok |-> FALSE, preds |-> << >>]}

\* centiseconds of playback per modelled position
TickCs == 61 * 100 + 50

Pad2(n) == IF n < 10 THEN "0" \o ToString(n) ELSE ToString(n)

\* formatVideoTime, on a time given in centiseconds
formatVideoTime(cs) ==
  LET hours == cs \div 360000
      minutes == (cs % 360000) \div 6000
      secs == (cs \div 100) % 60
      ms == cs % 100
  IN  IF hours > 0
      THEN Pad2(hours) \o ":" \o Pad2(minutes) \o ":" \o Pad2(secs) \o "." \o Pad2(ms)
      ELSE Pad2(minutes) \o ":" \o Pad2(secs) \o "." \o Pad2(ms)

\* ---- snapshot of the state, and its commit ----
State ==
  [ model |-> model, loading |-> loading, analyzing |-> analyzing,
    detectedVehicles |-> detectedVehicles, isVideo |-> isVideo,
    showAlert |-> showAlert, alertMessage |-> alertMessage,
    showUploader |-> showUploader, fileUrl |-> fileUrl,
    hasAttemptedDetection |-> hasAttemptedDetection,
    continuousDetection |-> continuousDetection,
    lastDetectionTimestamp |-> lastDetectionTimestamp,
    animationFrameRef |-> animationFrameRef,
    continuousDetectionRef |-> continuousDetectionRef,
    paused |-> paused, ended |-> ended, currentTime |-> currentTime,
    mediaTasks |-> mediaTasks, playPending |-> playPending,
    rafPending |-> rafPending, passes |-> passes, loadPending |-> loadPending ]

Commit(s) ==
  /\ model' = s.model
  /\ loading' = s.loading
  /\ analyzing' = s.analyzing
  /\ detectedVehicles' = s.detectedVehicles
  /\ isVideo' = s.isVideo
  /\ showAlert' = s.showAlert
  /\ alertMessage' = s.alertMessage
  /\ showUploader' = s.showUploader
  /\ fileUrl' = s.fileUrl
  /\ hasAttemptedDetection' = s.hasAttemptedDetection
  /\ continuousDetection' = s.continuousDetection
  /\ lastDetectionTimestamp' = s.lastDetectionTimestamp
  /\ animationFrameRef' = s.animationFrameRef
  /\ continuousDetectionRef' = s.continuousDetectionRef
  /\ paused' = s.paused
  /\ ended' = s.ended
  /\ currentTime' = s.currentTime
  /\ mediaTasks' = s.mediaTasks
  /\ playPending' = s.playPending
  /\ rafPending' = s.rafPending
  /\ passes' = s.passes
  /\ loadPending' = s.loadPending
  /\ UNCHANGED << extractorVars, scalingVars, pixelVars >>

\* ---- the browser primitives the component calls ----

\* cancelAnimationFrame(id): an id that is not pending is ignored
cancelAnimationFrame(s, id) == [s EXCEPT !.rafPending = @ \ {id}]

\* the id of a new request: the least id no pending request has (the only
\* holder of ids is animationFrameRef, which is overwritten with the new id)
NewFrameId(s) ==
  CHOOSE i \in 1..(MaxLoops + 1) :
    /\ i \notin s.rafPending
    /\ \A j \in 1..(i - 1) : j \in s.rafPending

\* animationFrameRef.current = requestAnimationFrame(detectVehiclesInVideo)
requestAnimationFrame(s) ==
  LET id == NewFrameId(s)
  IN  [s EXCEPT !.rafPending = @ \cup {id}, !.animationFrameRef = id]

\* HTMLMediaElement.pause(): the pause event and the rejection of the pending
\* play() promises are one queued task
pause(s) ==
  IF s.paused THEN s
  ELSE [s EXCEPT !.paused = TRUE,
                 !.mediaTasks = Append(@, [type |-> "pause", promises |-> s.playPending]),
                 !.playPending = 0]

\* HTMLMediaElement.play() on a paused element when playback is allowed: paused
\* is cleared at once, the play event is queued, the promise stays pending
play(s) ==
  [s EXCEPT !.paused = FALSE,
            !.ended = FALSE,
            !.currentTime = IF s.ended THEN 0 ELSE @,
            !.mediaTasks = Append(@, [type |-> "play", promises |-> 0]),
            !.playPending = @ + 1]

\* ---- passes ----
Pass(kind, s) == [kind |-> kind, media |-> s.fileUrl, time |-> s.currentTime]

PassCount(s, kind) ==
  LET ps == {p \in BagToSet(s.passes) : p.kind = kind}
      RECURSIVE Sum(_)
      Sum(T) == IF T = {} THEN 0
                ELSE LET p == CHOOSE q \in T : TRUE
                     IN  CopiesIn(p, s.passes) + Sum(T \ {p})
  IN  Sum(ps)

\* loop chains alive: a chain is a loop pass in flight or a pending frame callback
Chains(s) == PassCount(s, "loop") + Cardinality(s.rafPending)

\* a record builder that numbers the predictions before the non-vehicles are
\* filtered out: map((detection, index) => ...) ahead of filter(...)
Vehicles_IdsBeforeFilter(preds, p) ==
  LET idx == SelectSeq([i \in 1..Len(preds) |-> i], LAMBDA i : preds[i] \in vehicleClasses)
  IN  [i \in 1..Len(idx) |->
         [id |-> idx[i] - 1, class |-> preds[idx[i]], media |-> p.media, time |-> p.time]]

\* predictions.filter(vehicle class).map((detection, index) => record)
Vehicles(preds, p) ==
  LET kept == SelectSeq(preds, LAMBDA c : c \in vehicleClasses)
  IN  [i \in 1..Len(kept) |->
         [id |-> i - 1, class |-> kept[i], media |-> p.media, time |-> p.time]]

\* ---- detection passes ----

\* detectCurrentVideoFrame up to its await of model.detect(videoElement).
\* isVideo is the value of the render that created the caller: true wherever
\* this is called (the video controls are rendered only for a video).
\* caller names the function awaiting this call ("manual" or "loop").
detectCurrentVideoFrame(s, caller) ==
  IF s.model = NoModel THEN s
  ELSE [s EXCEPT !.lastDetectionTimestamp = formatVideoTime(s.currentTime * TickCs),
                 !.passes = @ (+) SetToBag({Pass(caller, s)})]

\* a catch block that empties the record set when the detector call rejects
detectCurrentVideoFrameDone_ClearsOnError(s, p, o) ==
  LET r == [s EXCEPT !.passes = @ (-) SetToBag({p})]
      vehicles == Vehicles(o.preds, p)
  IN  IF o.ok
      THEN [r EXCEPT !.detectedVehicles = vehicles,
                     !.hasAttemptedDetection = TRUE,
                     !.showAlert = IF Len(vehicles) = 0 THEN TRUE ELSE @,
                     !.alertMessage = IF Len(vehicles) = 0 THEN MsgNoVehiclesFrame ELSE @]
      ELSE [r EXCEPT !.detectedVehicles = << >>,
                     !.showAlert = TRUE, !.alertMessage = MsgErrorVideo]

\* detectCurrentVideoFrame after the await: the try block's remainder, or the catch
detectCurrentVideoFrameDone(s, p, o) ==
  LET r == [s EXCEPT !.passes = @ (-) SetToBag({p})]
      vehicles == Vehicles(o.preds, p)
  IN  IF o.ok
      THEN [r EXCEPT !.detectedVehicles = vehicles,
                     !.hasAttemptedDetection = TRUE,
                     !.showAlert = IF Len(vehicles) = 0 THEN TRUE ELSE @,
                     !.alertMessage = IF Len(vehicles) = 0 THEN MsgNoVehiclesFrame ELSE @]
      ELSE [r EXCEPT !.showAlert = TRUE, !.alertMessage = MsgErrorVideo]

\* detectVehiclesInImage up to its await of model.detect(standardizedCanvas)
detectVehiclesInImage(s) ==
  IF s.model = NoModel THEN s
  ELSE [s EXCEPT !.analyzing = TRUE,
                 !.passes = @ (+) SetToBag({Pass("image", s)})]

\* detectVehiclesInImage after the await
detectVehiclesInImageDone(s, p, o) ==
  LET r == [s EXCEPT !.passes = @ (-) SetToBag({p})]
      vehicles == Vehicles(o.preds, p)
      t == IF o.ok
           THEN [r EXCEPT !.detectedVehicles = vehicles,
                          !.showAlert = IF Len(vehicles) = 0 THEN TRUE ELSE @,
                          !.alertMessage = IF Len(vehicles) = 0 THEN MsgNoVehiclesImage ELSE @]
           ELSE [r EXCEPT !.showAlert = TRUE, !.alertMessage = MsgErrorImage]
  IN  [t EXCEPT !.analyzing = FALSE, !.hasAttemptedDetection = TRUE]

\* a loop iteration that does not look at continuousDetectionRef before its pass
detectVehiclesInVideo_IgnoresRef(s) ==
  IF s.model = NoModel THEN s
  ELSE IF s.ended
  THEN [s EXCEPT !.analyzing = FALSE,
                 !.continuousDetection = FALSE,
                 !.continuousDetectionRef = FALSE]
  ELSE IF s.paused THEN [s EXCEPT !.analyzing = FALSE]
  ELSE detectCurrentVideoFrame(s, "loop")

\* detectVehiclesInVideo, one loop iteration up to the await of the pass.
\* model is the value the closure holds; once loading is over it no longer
\* changes, and no closure of this function is created while loading.
detectVehiclesInVideo(s) ==
  IF s.model = NoModel THEN s
  ELSE IF s.ended
  THEN [s EXCEPT !.analyzing = FALSE,
                 !.continuousDetection = FALSE,
                 !.continuousDetectionRef = FALSE]
  ELSE IF ~s.continuousDetectionRef THEN [s EXCEPT !.analyzing = FALSE]
  ELSE IF s.paused THEN [s EXCEPT !.analyzing = FALSE]
  ELSE detectCurrentVideoFrame(s, "loop")

\* a loop that gives up after a failed pass: the next iteration is requested
\* only when the detector call succeeded
detectVehiclesInVideoDone_StopsOnError(s, p, o) ==
  LET d == detectCurrentVideoFrameDone(s, p, o)
  IN  IF o.ok /\ d.continuousDetectionRef /\ ~d.paused /\ ~d.ended /\ d.model # NoModel
      THEN requestAnimationFrame(d)
      ELSE d

\* detectVehiclesInVideo after the pass: re-schedule
detectVehiclesInVideoDone(s, p, o) ==
  LET d == detectCurrentVideoFrameDone(s, p, o)
  IN  IF d.continuousDetectionRef /\ ~d.paused /\ ~d.ended /\ d.model # NoModel
      THEN requestAnimationFrame(d)
      ELSE d

handleMediaLoad(s) == IF ~s.isVideo THEN detectVehiclesInImage(s) ELSE s

\* handleDetectCurrentFrame up to the await
handleDetectCurrentFrame(s) ==
  IF ~s.isVideo THEN s
  ELSE IF s.model = NoModel THEN [s EXCEPT !.analyzing = FALSE]
  ELSE detectCurrentVideoFrame([s EXCEPT !.analyzing = TRUE], "manual")

\* handleDetectCurrentFrame after the await
handleDetectCurrentFrameDone(s, p, o) ==
  [detectCurrentVideoFrameDone(s, p, o) EXCEPT !.analyzing = FALSE]

\* ---- continuous mode ----

\* the .then callback of videoElement.play()
playThen(s) == detectVehiclesInVideo(s)

\* a catch callback that resets the state flag and leaves the ref alone
playCatch_StateOnly(s) ==
  [s EXCEPT !.continuousDetection = FALSE,
            !.analyzing = FALSE,
            !.showAlert = TRUE,
            !.alertMessage = MsgPlayback]

\* the .catch callback of videoElement.play()
playCatch(s) ==
  [s EXCEPT !.continuousDetection = FALSE,
            !.continuousDetectionRef = FALSE,
            !.analyzing = FALSE,
            !.showAlert = TRUE,
            !.alertMessage = MsgPlayback]

RECURSIVE playThenN(_, _)
playThenN(s, n) == IF n = 0 THEN s ELSE playThenN(playThen(s), n - 1)

RECURSIVE playCatchN(_, _)
playCatchN(s, n) == IF n = 0 THEN s ELSE playCatchN(playCatch(s), n - 1)

\* toggleContinuousDetection; playAllowed tells whether play() is let to start
\* playback (when not, play() returns a rejected promise and the catch callback
\* runs before any other task)
toggleContinuousDetection(s, playAllowed) ==
  IF ~s.isVideo THEN s
  ELSE IF s.continuousDetection
  THEN LET a == [s EXCEPT !.continuousDetection = FALSE,
                          !.continuousDetectionRef = FALSE,
                          !.analyzing = FALSE]
       IN  IF a.animationFrameRef # 0
           THEN [cancelAnimationFrame(a, a.animationFrameRef) EXCEPT !.animationFrameRef = 0]
           ELSE a
  ELSE LET c == IF s.animationFrameRef # 0
                THEN [cancelAnimationFrame(s, s.animationFrameRef) EXCEPT !.animationFrameRef = 0]
                ELSE s
           b == [c EXCEPT !.continuousDetection = TRUE,
                          !.continuousDetectionRef = TRUE,
                          !.analyzing = TRUE,
                          !.hasAttemptedDetection = TRUE]
       IN  IF b.paused
           THEN IF playAllowed THEN play(b) ELSE playCatch(b)
           ELSE detectVehiclesInVideo(b)

\* a pause listener that turns continuous mode off instead of suspending it
handlePause_CancelsMode(s) ==
  IF s.continuousDetection
  THEN LET c == IF s.animationFrameRef # 0
                THEN cancelAnimationFrame(s, s.animationFrameRef)
                ELSE s
       IN  [c EXCEPT !.analyzing = FALSE,
                     !.continuousDetection = FALSE,
                     !.continuousDetectionRef = FALSE]
  ELSE s

\* the pause listener; continuousDetection is the value of the render whose
\* effect registered the listener, and the effect re-runs when it changes
handlePause(s) ==
  IF s.continuousDetection
  THEN LET c == IF s.animationFrameRef # 0
                THEN cancelAnimationFrame(s, s.animationFrameRef)
                ELSE s
       IN  [c EXCEPT !.analyzing = FALSE]
  ELSE s

\* the play listener
handlePlay(s) ==
  IF s.continuousDetection
  THEN detectVehiclesInVideo([s EXCEPT !.analyzing = TRUE])
  ELSE s

\* ---- session ----

handleTryAnother(s) ==
  LET c == IF s.isVideo /\ s.animationFrameRef # 0
           THEN cancelAnimationFrame(s, s.animationFrameRef)
           ELSE s
      q == IF c.isVideo THEN pause(c) ELSE c
  IN  [q EXCEPT !.showUploader = TRUE,
                !.analyzing = FALSE,
                !.continuousDetection = FALSE,
                !.continuousDetectionRef = FALSE]

\* an upload handler that leaves the previous media's records in place
handleFileUpload_KeepsRecords(s, newIsVideo) ==
  LET c == IF s.animationFrameRef # 0
           THEN cancelAnimationFrame(s, s.animationFrameRef)
           ELSE s
  IN  [c EXCEPT !.fileUrl = @ + 1,
                !.showUploader = FALSE,
                !.analyzing = FALSE,
                !.isVideo = newIsVideo,
                !.hasAttemptedDetection = FALSE,
                !.continuousDetection = FALSE,
                !.continuousDetectionRef = FALSE,
                !.lastDetectionTimestamp = Null]

handleFileUpload(s, newIsVideo) ==
  LET c == IF s.animationFrameRef # 0
           THEN cancelAnimationFrame(s, s.animationFrameRef)
           ELSE s
  IN  [c EXCEPT !.fileUrl = @ + 1,
                !.showUploader = FALSE,
                !.detectedVehicles = << >>,
                !.analyzing = FALSE,
                !.isVideo = newIsVideo,
                !.hasAttemptedDetection = FALSE,
                !.continuousDetection = FALSE,
                !.continuousDetectionRef = FALSE,
                !.lastDetectionTimestamp = Null]

handleUrlInput(s, isVideoUrl) ==
  LET c == IF s.animationFrameRef # 0
           THEN cancelAnimationFrame(s, s.animationFrameRef)
           ELSE s
  IN  [c EXCEPT !.fileUrl = @ + 1,
                !.showUploader = FALSE,
                !.detectedVehicles = << >>,
                !.analyzing = FALSE,
                !.hasAttemptedDetection = FALSE,
                !.continuousDetection = FALSE,
                !.continuousDetectionRef = FALSE,
                !.lastDetectionTimestamp = Null,
                !.isVideo = isVideoUrl]

\* The media element gets a new source (or is replaced): its queued tasks are
\* removed, the promises those tasks would have settled are settled at once,
\* a playing element is paused and its pending play() promises are rejected.
RECURSIVE settleTasks(_, _)
settleTasks(s, tasks) ==
  IF tasks = << >> THEN s
  ELSE LET t == Head(tasks)
           s1 == IF t.type = "playing" THEN playThenN(s, t.promises)
                 ELSE playCatchN(s, t.promises)
       IN  settleTasks(s1, Tail(tasks))

loadMedia(s, old) ==
  LET fresh == [s EXCEPT !.mediaTasks = << >>, !.playPending = 0,
                         !.paused = TRUE, !.ended = FALSE, !.currentTime = 0,
                         !.loadPending = ~s.isVideo]
  IN  playCatchN(settleTasks(fresh, old.mediaTasks), old.playPending)

\* ---- actions ----

\* an exact fraction num/den for a number of [0,1]
Frac(n, d) == [num |-> n, den |-> d]

\* no result (bestResult = null; the call has not returned)
NoResult ==
  [color |-> "", colorHex |-> "", confidence |-> Frac(0, 1), method |-> "null",
   debugInfo |-> ""]

\* no call of the extractor is under way
ExtractorIdle ==
  /\ vehicleType = "car"
  /\ strategyIndex = 0
  /\ colorCounts = << >>
  /\ bestResult = NoResult
  /\ colorData = NoResult

\* no canvas; no box
NoCanvas == [width |-> 0, height |-> 0, newWidth |-> Frac(0, 1), newHeight |-> Frac(0, 1)]
NoBox == << >>

\* no image is on its way through the standardizer
ScalingIdle ==
  /\ imageElement = [naturalWidth |-> 0, naturalHeight |-> 0]
  /\ standardizedCanvas = NoCanvas
  /\ detection = NoBox
  /\ adjustedBbox = NoBox

\* no pixel is on its way through the classifier
NoPixel == [r |-> 0, g |-> 0, b |-> 0]

PixelIdle ==
  /\ pixel = NoPixel
  /\ pixelColorName = ""

SessionInit ==
  /\ model = NoModel
  /\ loading = TRUE
  /\ analyzing = FALSE
  /\ detectedVehicles = << >>
  /\ isVideo \in BOOLEAN
  /\ showAlert = FALSE
  /\ alertMessage = ""
  /\ showUploader = FALSE
  /\ fileUrl = 0
  /\ hasAttemptedDetection = FALSE
  /\ continuousDetection = FALSE
  /\ lastDetectionTimestamp = Null
  /\ animationFrameRef = 0
  /\ continuousDetectionRef = FALSE
  /\ paused = TRUE
  /\ ended = FALSE
  /\ currentTime = 0
  /\ mediaTasks = << >>
  /\ playPending = 0
  /\ rafPending = {}
  /\ passes = EmptyBag
  /\ loadPending = ~isVideo

Init == SessionInit /\ ExtractorIdle /\ ScalingIdle /\ PixelIdle

\* the controls below the media are rendered
ControlsShown == ~showUploader /\ ~loading

RECURSIVE TaskPromises(_)
TaskPromises(tasks) ==
  IF tasks = << >> THEN 0 ELSE Head(tasks).promises + TaskPromises(Tail(tasks))

\* the loadModel effect settles
LoadModel ==
  /\ loading
  /\ \E ok \in BOOLEAN :
       Commit([State EXCEPT !.model = IF ok THEN "loaded" ELSE NoModel,
                            !.loading = FALSE])

\* onLoad of the image (onLoadedData of a video runs the same handler, which
\* does nothing for a video)
MediaLoaded ==
  /\ loadPending
  /\ PassCount(State, "image") < MaxOneShot
  /\ Commit(handleMediaLoad([State EXCEPT !.loadPending = FALSE]))

\* the Detect Vehicles button
ClickDetectVehicles ==
  /\ ControlsShown /\ ~isVideo /\ ~hasAttemptedDetection /\ ~analyzing
  /\ ~loadPending
  /\ PassCount(State, "image") < MaxOneShot
  /\ Commit(detectVehiclesInImage(State))

\* the Detect Current Frame button
ClickDetectCurrentFrame ==
  /\ ControlsShown /\ isVideo /\ ~(analyzing /\ ~continuousDetection)
  /\ PassCount(State, "manual") < MaxOneShot
  /\ Commit(handleDetectCurrentFrame(State))

\* the Auto-Detect button
ClickToggle ==
  /\ ControlsShown /\ isVideo
  /\ \E playAllowed \in BOOLEAN :
       /\ ~continuousDetection =>
            /\ Chains(State) < MaxLoops
            /\ (paused /\ playAllowed) =>
                 /\ Len(mediaTasks) < MaxTasks
                 /\ playPending + TaskPromises(mediaTasks) < MaxPlayPromises
       /\ Commit(toggleContinuousDetection(State, playAllowed))

\* the Try Another Analysis button
ClickTryAnother ==
  /\ ControlsShown /\ hasAttemptedDetection /\ ~analyzing
  /\ (isVideo /\ ~paused) => Len(mediaTasks) < MaxTasks
  /\ Commit(handleTryAnother(State))

\* the uploader hands over a file
UploadFile ==
  /\ showUploader
  /\ fileUrl < MaxMedia
  /\ \E newIsVideo \in BOOLEAN :
       Commit(loadMedia(handleFileUpload(State, newIsVideo), State))

\* the uploader hands over a URL
EnterUrl ==
  /\ showUploader
  /\ fileUrl < MaxMedia
  /\ \E isVideoUrl \in BOOLEAN :
       Commit(loadMedia(handleUrlInput(State, isVideoUrl), State))

\* the Cancel button under the uploader
CancelUploader ==
  /\ showUploader
  /\ Commit([State EXCEPT !.showUploader = FALSE])

\* the alert is closed (by its timer or by the user)
CloseAlert ==
  /\ showAlert
  /\ Commit([State EXCEPT !.showAlert = FALSE])

\* ---- the video element ----

\* the user starts playback with the element's controls
UserPlay ==
  /\ ~loading /\ isVideo /\ paused
  /\ Len(mediaTasks) < MaxTasks
  /\ Commit([play(State) EXCEPT !.playPending = playPending])

\* the user pauses playback with the element's controls
UserPause ==
  /\ isVideo /\ ~paused
  /\ Len(mediaTasks) < MaxTasks
  /\ Commit(pause(State))

\* playback begins: the task that resolves the pending play() promises is queued
PlaybackStarts ==
  /\ isVideo /\ ~paused /\ playPending > 0
  /\ Len(mediaTasks) < MaxTasks
  /\ Commit([State EXCEPT !.mediaTasks = Append(@, [type |-> "playing", promises |-> playPending]),
                          !.playPending = 0])

\* playback advances by one position; at the last position (the duration of
\* the media) playback has ended: ended reads true from now on, and the task
\* that pauses the element and fires pause and ended is queued
Tick ==
  /\ isVideo /\ ~paused /\ ~ended /\ playPending = 0
  /\ currentTime < MaxTime
  /\ (currentTime + 1 = MaxTime) => Len(mediaTasks) < MaxTasks
  /\ Commit(IF currentTime + 1 = MaxTime
            THEN [State EXCEPT !.currentTime = @ + 1,
                               !.ended = TRUE,
                               !.mediaTasks = Append(@, [type |-> "end", promises |-> 0])]
            ELSE [State EXCEPT !.currentTime = @ + 1])

Popped == [State EXCEPT !.mediaTasks = Tail(@)]

\* the play event is dispatched
FirePlay ==
  /\ mediaTasks # << >> /\ Head(mediaTasks).type = "play"
  /\ continuousDetection => Chains(State) < MaxLoops
  /\ Commit(handlePlay(Popped))

\* the pause event is dispatched, then the promises pause() took are rejected
FirePause ==
  /\ mediaTasks # << >> /\ Head(mediaTasks).type = "pause"
  /\ Commit(playCatchN(handlePause(Popped), Head(mediaTasks).promises))

\* the promises of play() are resolved
FirePlaying ==
  /\ mediaTasks # << >> /\ Head(mediaTasks).type = "playing"
  /\ Chains(State) + Head(mediaTasks).promises <= MaxLoops
  /\ Commit(playThenN(Popped, Head(mediaTasks).promises))

\* the end-of-media task runs: a still playing element is paused and fires pause
FireEnd ==
  /\ mediaTasks # << >> /\ Head(mediaTasks).type = "end"
  /\ Commit(IF ended /\ ~paused
            THEN playCatchN(handlePause([Popped EXCEPT !.paused = TRUE, !.playPending = 0]),
                            playPending)
            ELSE Popped)

\* ---- the loop and the detector ----

\* a requested animation frame runs its callback
FrameCallback ==
  \E id \in rafPending :
    Commit(detectVehiclesInVideo([State EXCEPT !.rafPending = @ \ {id}]))

\* the detector settles for a pass of the loop
LoopPassCompletes ==
  \E p \in BagToSet(passes), o \in Outcomes :
    /\ p.kind = "loop"
    /\ Commit(detectVehiclesInVideoDone(State, p, o))

\* the detector settles for a manual pass
ManualPassCompletes ==
  \E p \in BagToSet(passes), o \in Outcomes :
    /\ p.kind = "manual"
    /\ Commit(handleDetectCurrentFrameDone(State, p, o))

\* the detector settles for an image pass
ImagePassCompletes ==
  \E p \in BagToSet(passes), o \in Outcomes :
    /\ p.kind = "image"
    /\ Commit(detectVehiclesInImageDone(State, p, o))

Next ==
  \/ LoadModel
  \/ MediaLoaded
  \/ ClickDetectVehicles
  \/ ClickDetectCurrentFrame
  \/ ClickToggle
  \/ ClickTryAnother
  \/ UploadFile
  \/ EnterUrl
  \/ CancelUploader
  \/ CloseAlert
  \/ UserPlay
  \/ UserPause
  \/ PlaybackStarts
  \/ Tick
  \/ FirePlay
  \/ FirePause
  \/ FirePlaying
  \/ FireEnd
  \/ FrameCallback
  \/ LoopPassCompletes
  \/ ManualPassCompletes
  \/ ImagePassCompletes

Spec == Init /\ [][Next]_vars

TypeOK ==
  /\ model \in {NoModel, "loaded"}
  /\ animationFrameRef \in 0..(MaxLoops + 1)
  /\ rafPending \subseteq 1..(MaxLoops + 1)
  /\ Chains(State) <= MaxLoops
  /\ fileUrl \in 0..MaxMedia
  /\ currentTime \in 0..MaxTime
  /\ Len(mediaTasks) <= MaxTasks

\* ---- the session under detector results of several predictions ----
\* The same handlers, driven by detector results of up to MaxPassPreds
\* predictions over two vehicle classes and one other class; the continuous
\* loop is left out (its passes are detectCurrentVideoFrame, as the manual ones).

MaxPassPreds == 3

PassClasses == {"car", "truck", "person"}

WideOutcomes ==
  {[ok |-> TRUE, preds |-> q] : q \in SeqsUpTo(PassClasses, MaxPassPreds)}
    \cup {[ok |-> FALSE, preds |-> << >>]}

\* the detector settles for a manual pass
WideManualPassCompletes ==
  \E p \in BagToSet(passes), o \in WideOutcomes :
    /\ p.kind = "manual"
    /\ Commit(handleDetectCurrentFrameDone(State, p, o))

\* the detector settles for an image pass
WideImagePassCompletes ==
  \E p \in BagToSet(passes), o \in WideOutcomes :
    /\ p.kind = "image"
    /\ Commit(detectVehiclesInImageDone(State, p, o))

PassNext ==
  \/ LoadModel
  \/ MediaLoaded
  \/ ClickDetectVehicles
  \/ ClickDetectCurrentFrame
  \/ ClickTryAnother
  \/ UploadFile
  \/ CloseAlert
  \/ WideManualPassCompletes
  \/ WideImagePassCompletes

PassSpec == Init /\ [][PassNext]_vars

\* ---- the color extractor: extractDominantColorWithDebug ----
\* The pixels of a region enter as the histogram the sampling loop tallies:
\* colorCounts, a sequence of entries [color, count] in the order in which the
\* names were first seen (the order Object.entries yields), every valid pixel
\* counted under one name.  The debug image of a result is left out.

FracGt(a, b) == a.num * b.den > b.num * a.den

\* getColorHex: the table, and gray for a name that is not in it
colorMap ==
  ("Pearl White" :> "#F8F8FF") @@
  ("White" :> "#FFFFFF") @@
  ("Silver" :> "#C0C0C0") @@
  ("Light Gray" :> "#D3D3D3") @@
  ("Medium Gray" :> "#A9A9A9") @@
  ("Gray" :> "#808080") @@
  ("Dark Gray" :> "#505050") @@
  ("Charcoal" :> "#36454F") @@
  ("Black" :> "#1C1C1C") @@
  ("Cream" :> "#FFFDD0") @@
  ("Beige" :> "#F5F5DC") @@
  ("Tan" :> "#D2B48C") @@
  ("Light Brown" :> "#CD853F") @@
  ("Brown" :> "#8B4513") @@
  ("Dark Brown" :> "#654321") @@
  ("Chocolate" :> "#7B3F00") @@
  ("Light Pink" :> "#FFB6C1") @@
  ("Rose" :> "#FF69B4") @@
  ("Light Red" :> "#FF6B6B") @@
  ("Red" :> "#DC143C") @@
  ("Crimson" :> "#DC143C") @@
  ("Dark Red" :> "#8B0000") @@
  ("Maroon" :> "#800000") @@
  ("Pink" :> "#FFC0CB") @@
  ("Hot Pink" :> "#FF1493") @@
  ("Fuchsia" :> "#FF00FF") @@
  ("Magenta" :> "#FF00FF") @@
  ("Deep Pink" :> "#FF1493") @@
  ("Peach" :> "#FFCBA4") @@
  ("Light Orange" :> "#FFA500") @@
  ("Orange" :> "#FF8C00") @@
  ("Burnt Orange" :> "#CC5500") @@
  ("Dark Orange" :> "#FF8C00") @@
  ("Rust" :> "#B7410E") @@
  ("Light Yellow" :> "#FFFFE0") @@
  ("Yellow" :> "#FFD700") @@
  ("Gold" :> "#FFD700") @@
  ("Mustard" :> "#FFDB58") @@
  ("Amber" :> "#FFBF00") @@
  ("Lime" :> "#00FF00") @@
  ("Mint Green" :> "#98FB98") @@
  ("Light Green" :> "#90EE90") @@
  ("Green" :> "#228B22") @@
  ("Forest Green" :> "#228B22") @@
  ("Emerald" :> "#50C878") @@
  ("Seafoam" :> "#9FE2BF") @@
  ("Teal" :> "#008080") @@
  ("Dark Teal" :> "#003D3D") @@
  ("Turquoise" :> "#40E0D0") @@
  ("Cyan" :> "#00FFFF") @@
  ("Dark Green" :> "#006400") @@
  ("Sky Blue" :> "#87CEEB") @@
  ("Light Blue" :> "#ADD8E6") @@
  ("Blue" :> "#4169E1") @@
  ("Royal Blue" :> "#4169E1") @@
  ("Cobalt" :> "#0047AB") @@
  ("Navy" :> "#000080") @@
  ("Dark Navy" :> "#000080") @@
  ("Midnight Blue" :> "#191970") @@
  ("Periwinkle" :> "#CCCCFF") @@
  ("Indigo" :> "#4B0082") @@
  ("Dark Blue" :> "#00008B") @@
  ("Lavender" :> "#E6E6FA") @@
  ("Light Purple" :> "#DDA0DD") @@
  ("Purple" :> "#800080") @@
  ("Violet" :> "#8A2BE2") @@
  ("Plum" :> "#DDA0DD") @@
  ("Dark Purple" :> "#4B0082") @@
  ("Mixed" :> "#808080")

getColorHex(colorName) ==
  IF colorName \in DOMAIN colorMap THEN colorMap[colorName] ELSE "#808080"

\* String.prototype.toLowerCase on the class names used here
toLowerCase(str) ==
  CASE str = "Truck" -> "truck"
    [] str = "Car" -> "car"
    [] OTHER -> str

fallbackColorMap ==
  ("car" :> [color |-> "Silver", colorHex |-> "#C0C0C0"]) @@
  ("truck" :> [color |-> "White", colorHex |-> "#FFFFFF"]) @@
  ("bus" :> [color |-> "Yellow", colorHex |-> "#FFD700"]) @@
  ("motorcycle" :> [color |-> "Black", colorHex |-> "#333333"]) @@
  ("bicycle" :> [color |-> "Blue", colorHex |-> "#4169E1"]) @@
  ("airplane" :> [color |-> "White", colorHex |-> "#F5F5F5"]) @@
  ("boat" :> [color |-> "White", colorHex |-> "#FAFAFA"]) @@
  ("train" :> [color |-> "Gray", colorHex |-> "#808080"])

\* getFallbackColor, with the debugInfo its caller adds
getFallbackColor(type, debugInfo) ==
  LET key == toLowerCase(type)
      fallback == IF key \in DOMAIN fallbackColorMap
                  THEN fallbackColorMap[key]
                  ELSE [color |-> "Gray", colorHex |-> "#808080"]
  IN  [color |-> fallback.color, colorHex |-> fallback.colorHex,
       confidence |-> Frac(3, 10), method |-> "fallback", debugInfo |-> debugInfo]

strategies == << "Full Vehicle (Adjusted)", "Upper Body Area", "Main Body Panel" >>

blackColors == {"Black", "Dark Gray", "Charcoal", "Mixed"}

RECURSIVE totalCount(_)
totalCount(entries) ==
  IF entries = << >> THEN 0 ELSE Head(entries).count + totalCount(Tail(entries))

\* entries.sort((a, b) => b[1] - a[1]): descending by count, and stable, so
\* entries of equal count keep their order
RECURSIVE sortInto(_, _)
sortInto(sorted, entries) ==
  IF entries = << >> THEN sorted
  ELSE LET e == Head(entries)
           k == Cardinality({i \in 1..Len(sorted) : sorted[i].count >= e.count})
       IN  sortInto(SubSeq(sorted, 1, k) \o << e >> \o SubSeq(sorted, k + 1, Len(sorted)),
                    Tail(entries))

sortedColors(entries) == sortInto(<< >>, entries)

coloredPixels(sorted) == SelectSeq(sorted, LAMBDA e : e.color \notin blackColors)

\* the choice every sampler starts from: the top colored entry when the colored
\* entries hold more than 30% of the valid pixels, else the top entry
preferColored(entries, totalPixels) ==
  LET sorted == sortedColors(entries)
      colored == coloredPixels(sorted)
  IN  IF 10 * totalCount(colored) > 3 * totalPixels /\ Len(colored) > 0
      THEN colored[1]
      ELSE sorted[1]

\* a selection that takes the most common entry whatever the colored share is
dominantColor_AlwaysOverall(entries) ==
  LET sorted == sortedColors(entries)
  IN  IF Len(sorted) = 0 THEN [color |-> "Unknown", count |-> 0]
      ELSE IF sorted[1].color = "Mixed" /\ Len(sorted) > 1 THEN sorted[2]
      ELSE sorted[1]

\* the dominant color of a region strategy, with its count (maxCount)
dominantColor(entries) ==
  LET sorted == sortedColors(entries)
      first == preferColored(entries, totalCount(entries))
  IN  IF Len(sorted) = 0 THEN [color |-> "Unknown", count |-> 0]
      ELSE IF first.color = "Mixed" /\ Len(sorted) > 1 THEN sorted[2]
      ELSE first

\* the confidence of a region strategy
strategyConfidence(totalValidPixels, maxCount) ==
  IF totalValidPixels > 50
  THEN IF 100 * maxCount > 95 * totalValidPixels
       THEN Frac(95, 100)
       ELSE Frac(maxCount, totalValidPixels)
  ELSE Frac(4, 10)

\* the first three entries as "name(count)", joined by ", "
RECURSIVE joinTop(_, _)
joinTop(sorted, n) ==
  IF n = 0 \/ sorted = << >> THEN ""
  ELSE Head(sorted).color \o "(" \o ToString(Head(sorted).count) \o ")"
         \o (IF n = 1 \/ Len(sorted) = 1 THEN "" ELSE ", " \o joinTop(Tail(sorted), n - 1))

\* the result one strategy offers for the histogram of its region
strategyResult(i, entries) ==
  LET dominant == dominantColor(entries)
      totalValidPixels == totalCount(entries)
  IN  [color |-> dominant.color,
       colorHex |-> getColorHex(dominant.color),
       confidence |-> strategyConfidence(totalValidPixels, dominant.count),
       method |-> "pixel-analysis",
       debugInfo |-> "Strategy: " \o strategies[i] \o ", Pixels: "
                       \o ToString(totalValidPixels) \o ", Top colors: "
                       \o joinTop(sortedColors(entries), 3)]

\* what the sampling of a region can come to: the histogram of its pixels, an
\* exception of drawImage / getImageData, or no 2d context
Pixels(entries) == [kind |-> "pixels", counts |-> entries]
Throws == [kind |-> "throws", counts |-> << >>]
NoContext == [kind |-> "noctx", counts |-> << >>]

\* a loop over the strategies without the inner try/catch: the exception of a
\* region goes to the outer catch
runStrategy_NoInnerCatch(i, best, type, sample) ==
  IF sample.kind = "noctx" THEN [strategyIndex |-> i + 1, bestResult |-> best, colorData |-> NoResult]
  ELSE IF sample.kind = "throws"
  THEN [strategyIndex |-> i + 1, bestResult |-> best,
        colorData |-> getFallbackColor(type, "Error: SecurityError")]
  ELSE LET r == strategyResult(i + 1, sample.counts)
       IN  [strategyIndex |-> i + 1,
            bestResult |-> IF best = NoResult \/ FracGt(r.confidence, best.confidence)
                           THEN r ELSE best,
            colorData |-> NoResult]

\* a loop that replaces the kept result also on equal confidence, so that the
\* latest strategy wins a tie
runStrategy_LatestOnTies(i, best, type, sample) ==
  IF sample.kind # "pixels"
  THEN [strategyIndex |-> i + 1, bestResult |-> best, colorData |-> NoResult]
  ELSE LET r == strategyResult(i + 1, sample.counts)
       IN  [strategyIndex |-> i + 1,
            bestResult |-> IF best = NoResult \/ ~FracGt(best.confidence, r.confidence)
                           THEN r ELSE best,
            colorData |-> NoResult]

\* one iteration of the loop over the strategies, i strategies done before it
runStrategy(i, best, type, sample) ==
  IF sample.kind # "pixels"
  THEN [strategyIndex |-> i + 1, bestResult |-> best, colorData |-> NoResult]
  ELSE LET r == strategyResult(i + 1, sample.counts)
       IN  [strategyIndex |-> i + 1,
            bestResult |-> IF best = NoResult \/ FracGt(r.confidence, best.confidence)
                           THEN r ELSE best,
            colorData |-> NoResult]

\* a center sampling that accepts any sample with a valid pixel
centerSampling_AcceptsAny(type, sample) ==
  LET totalPixels == totalCount(sample.counts)
  IN  IF sample.kind = "pixels" /\ totalPixels > 0
      THEN LET dominant == preferColored(sample.counts, totalPixels)
           IN  [color |-> dominant.color,
                colorHex |-> getColorHex(dominant.color),
                confidence |-> Frac(3, 10),
                method |-> "pixel-analysis",
                debugInfo |-> "Fallback center sampling: " \o dominant.color]
      ELSE getFallbackColor(type, "All strategies failed, using fallback")

\* the center sampling fallback and, below it, the final fallback
centerSampling(type, sample) ==
  LET totalPixels == totalCount(sample.counts)
  IN  IF sample.kind = "pixels" /\ totalPixels > 5
      THEN LET dominant == preferColored(sample.counts, totalPixels)
           IN  [color |-> dominant.color,
                colorHex |-> getColorHex(dominant.color),
                confidence |-> Frac(3, 10),
                method |-> "pixel-analysis",
                debugInfo |-> "Fallback center sampling: " \o dominant.color]
      ELSE getFallbackColor(type, "All strategies failed, using fallback")

\* ---- the extractor as a state machine, and its inputs ----

Reverse(seq) == [i \in 1..Len(seq) |-> seq[Len(seq) + 1 - i]]

\* the histograms over the names of palette with counts of counts, the names
\* first seen in the order of palette or in the opposite order
Histograms(palette, counts) ==
  LET inOrder == { SelectSeq([i \in 1..Len(palette) |->
                                [color |-> palette[i], count |-> f[i]]],
                             LAMBDA e : e.count > 0)
                     : f \in [1..Len(palette) -> counts] }
  IN  inOrder \cup {Reverse(h) : h \in inOrder}

VehicleTypes == vehicleClasses \cup {"person", "Truck"}

StrategySamples ==
  {Pixels(h) : h \in Histograms(<< "Mixed", "Black", "Red" >>, {0, 5, 60})}
    \cup {Throws, NoContext}

CenterSamples ==
  {Pixels(h) : h \in Histograms(<< "Mixed", "Black", "Red" >>, {0, 2, 3})}
    \cup {Throws, NoContext}

ColorInit ==
  /\ SessionInit
  /\ PixelIdle
  /\ ScalingIdle
  /\ vehicleType \in VehicleTypes
  /\ strategyIndex = 0
  /\ colorCounts = << >>
  /\ bestResult = NoResult
  /\ colorData = NoResult

\* the next strategy samples its region
RunStrategyOn(sample) ==
  /\ colorData = NoResult
  /\ strategyIndex < Len(strategies)
  /\ LET e == runStrategy(strategyIndex, bestResult, vehicleType, sample)
     IN  /\ strategyIndex' = e.strategyIndex
         /\ bestResult' = e.bestResult
         /\ colorData' = e.colorData
  /\ UNCHANGED << vehicleType, colorCounts, sessionVars, scalingVars, pixelVars >>

RunStrategy == \E sample \in StrategySamples : RunStrategyOn(sample)

\* bestResult && bestResult.confidence > 0.2
BestIsGoodEnough == bestResult # NoResult /\ FracGt(bestResult.confidence, Frac(2, 10))

\* after the loop: the best result is returned
ReturnBest ==
  /\ colorData = NoResult
  /\ strategyIndex = Len(strategies)
  /\ BestIsGoodEnough
  /\ colorData' = bestResult
  /\ UNCHANGED << vehicleType, strategyIndex, colorCounts, bestResult, sessionVars, scalingVars, pixelVars >>

\* after the loop: the center of the box is sampled
CenterSamplingOn(sample) ==
  /\ colorData = NoResult
  /\ strategyIndex = Len(strategies)
  /\ ~BestIsGoodEnough
  /\ colorData' = centerSampling(vehicleType, sample)
  /\ UNCHANGED << vehicleType, strategyIndex, colorCounts, bestResult, sessionVars, scalingVars, pixelVars >>

CenterSampling == \E sample \in CenterSamples : CenterSamplingOn(sample)

\* an exception outside the inner try blocks (creating a canvas, reading the
\* box) is caught by the outer catch
OuterCatch ==
  /\ colorData = NoResult
  /\ colorData' = getFallbackColor(vehicleType, "Error: TypeError")
  /\ UNCHANGED << vehicleType, strategyIndex, colorCounts, bestResult, sessionVars, scalingVars, pixelVars >>

ColorNext ==
  \/ RunStrategy
  \/ ReturnBest
  \/ CenterSampling
  \/ OuterCatch

ColorSpec == ColorInit /\ [][ColorNext]_vars

\* ---- the dominant color selection alone, over richer histograms ----

PolicyHistograms ==
  Histograms(<< "Mixed", "Black", "Red", "Blue" >>, {0, 20, 30, 35, 65, 80})

PolicyInit ==
  /\ SessionInit
  /\ PixelIdle
  /\ ScalingIdle
  /\ vehicleType = "car"
  /\ strategyIndex = 0
  /\ colorCounts \in PolicyHistograms
  /\ bestResult = NoResult
  /\ colorData = NoResult

\* the first strategy analyses a region whose histogram is colorCounts
AnalyzeRegion ==
  /\ strategyIndex = 0
  /\ RunStrategyOn(Pixels(colorCounts))

PolicyNext == AnalyzeRegion

PolicySpec == PolicyInit /\ [][PolicyNext]_vars

\* ---- the selection among the strategies, the three regions given ----
\* colorCounts holds what the sampling of the three regions comes to, in the
\* order of the strategies.

SelectSamples ==
  {Pixels(h) : h \in Histograms(<< "Mixed", "Red" >>, {0, 5, 60})}
    \cup {Throws, NoContext}

SelectInit ==
  /\ SessionInit
  /\ PixelIdle
  /\ ScalingIdle
  /\ vehicleType = "car"
  /\ strategyIndex = 0
  /\ colorCounts \in [1..Len(strategies) -> SelectSamples]
  /\ bestResult = NoResult
  /\ colorData = NoResult

\* the next strategy samples its region
RunNextStrategy ==
  /\ strategyIndex < Len(strategies)
  /\ RunStrategyOn(colorCounts[strategyIndex + 1])

SelectNext ==
  \/ RunNextStrategy
  \/ ReturnBest
  \/ CenterSampling

SelectSpec == SelectInit /\ [][SelectNext]_vars

\* ---- standardizeImage and the rescale of a bbox ----
\* Pixel coordinates and sizes are exact fractions (the rounding of the
\* floating point operations is left out); a box is << x, y, width, height >>.
\* Images are taken large enough for the canvas to have a row and a column.

targetWidth == 800
targetHeight == 600

RECURSIVE GCD(_, _)
GCD(a, b) == IF b = 0 THEN a ELSE GCD(b, a % b)

\* the fraction n/d in lowest terms, n >= 0 and d > 0
Reduced(n, d) == LET g == GCD(n, d) IN IF g = 0 THEN Frac(0, 1) ELSE Frac(n \div g, d \div g)

\* the conversion of a number to the unsigned long of canvas.width / height
ToUnsignedLong(f) == f.num \div f.den

\* standardizeImage: the canvas, with the size at which drawImage paints the image
standardizeImage(image) ==
  LET wider == image.naturalWidth * targetHeight > targetWidth * image.naturalHeight
      newWidth == IF wider THEN Frac(targetWidth, 1)
                  ELSE Reduced(targetHeight * image.naturalWidth, image.naturalHeight)
      newHeight == IF wider
                   THEN Reduced(targetWidth * image.naturalHeight, image.naturalWidth)
                   ELSE Frac(targetHeight, 1)
  IN  [width |-> ToUnsignedLong(newWidth), height |-> ToUnsignedLong(newHeight),
       newWidth |-> newWidth, newHeight |-> newHeight]

\* where drawImage(imageElement, 0, 0, newWidth, newHeight) puts a box of the image
toCanvas(box, image, canvas) ==
  << Reduced(box[1] * canvas.newWidth.num, canvas.newWidth.den * image.naturalWidth),
     Reduced(box[2] * canvas.newHeight.num, canvas.newHeight.den * image.naturalHeight),
     Reduced(box[3] * canvas.newWidth.num, canvas.newWidth.den * image.naturalWidth),
     Reduced(box[4] * canvas.newHeight.num, canvas.newHeight.den * image.naturalHeight) >>

\* the rescale of detectVehiclesInImage: scaleX = naturalWidth / canvas.width,
\* scaleY = naturalHeight / canvas.height
adjustBbox(bbox, image, canvas) ==
  << Reduced(bbox[1].num * image.naturalWidth, bbox[1].den * canvas.width),
     Reduced(bbox[2].num * image.naturalHeight, bbox[2].den * canvas.height),
     Reduced(bbox[3].num * image.naturalWidth, bbox[3].den * canvas.width),
     Reduced(bbox[4].num * image.naturalHeight, bbox[4].den * canvas.height) >>

ImageSides == {300, 400, 700, 1000}

\* boxes of vehicles in the image, in pixels of the image
ImageBoxes == {<< x, y, 100, h >> : x \in {0, 50}, y \in {0, 50}, h \in {100, 150}}

ScaleInit ==
  /\ SessionInit
  /\ PixelIdle
  /\ ExtractorIdle
  /\ imageElement \in [naturalWidth : ImageSides, naturalHeight : ImageSides]
  /\ standardizedCanvas = NoCanvas
  /\ detection = NoBox
  /\ adjustedBbox = NoBox

\* standardizedCanvas = standardizeImage(imageElement)
Standardize ==
  /\ standardizedCanvas = NoCanvas
  /\ standardizedCanvas' = standardizeImage(imageElement)
  /\ UNCHANGED << imageElement, detection, adjustedBbox, sessionVars, extractorVars, pixelVars >>

\* the detector reports a vehicle of the image where the canvas shows it
Detect ==
  /\ standardizedCanvas # NoCanvas
  /\ detection = NoBox
  /\ \E box \in ImageBoxes :
       detection' = [vehicle |-> box,
                     bbox |-> toCanvas(box, imageElement, standardizedCanvas)]
  /\ UNCHANGED << imageElement, standardizedCanvas, adjustedBbox, sessionVars, extractorVars, pixelVars >>

\* the bbox of the prediction is adjusted back to the size of the image
Rescale ==
  /\ detection # NoBox
  /\ adjustedBbox = NoBox
  /\ adjustedBbox' = adjustBbox(detection.bbox, imageElement, standardizedCanvas)
  /\ UNCHANGED << imageElement, standardizedCanvas, detection, sessionVars, extractorVars, pixelVars >>

ScaleNext ==
  \/ Standardize
  \/ Detect
  \/ Rescale

ScaleSpec == ScaleInit /\ [][ScaleNext]_vars

\* ---- the records of an image and of a video frame, with their boxes ----
\* A prediction is [vehicle, bbox]: bbox is the detector's box. What
\* extractDominantColorWithDebug is called with is kept as the region of its
\* result.

\* performVehicleAnalysis: the color is extracted from detection.bbox
performVehicleAnalysis(pred) == [region |-> pred.bbox]

\* a record of an image whose analysis is made on the detector's box
imageVehicle_AnalysesDetectorBox(pred, adjusted) ==
  [bbox |-> adjusted,
   analysis |-> performVehicleAnalysis(pred),
   debugImage |-> [region |-> adjusted]]

\* the record detectVehiclesInImage builds of a prediction, adjusted being
\* its adjustedBbox
imageVehicle(pred, adjusted) ==
  [bbox |-> adjusted,
   analysis |-> performVehicleAnalysis([pred EXCEPT !.bbox = adjusted]),
   debugImage |-> [region |-> adjusted]]

\* the record detectCurrentVideoFrame builds of a prediction
videoVehicle(pred) ==
  [bbox |-> pred.bbox,
   analysis |-> performVehicleAnalysis(pred)]

\* boxes of vehicles in a video frame, in pixels of the frame
FrameBoxes == {<< Frac(b[1], 1), Frac(b[2], 1), Frac(b[3], 1), Frac(b[4], 1) >> : b \in ImageBoxes}

\* the detector reports a vehicle of the current frame of the video
DetectFrame ==
  /\ isVideo
  /\ detection = NoBox
  /\ \E box \in FrameBoxes : detection' = [vehicle |-> box, bbox |-> box]
  /\ UNCHANGED << imageElement, standardizedCanvas, adjustedBbox, sessionVars, extractorVars, pixelVars >>

\* the record of the image's vehicle is built and set
RecordImageVehicle ==
  /\ ~isVideo
  /\ adjustedBbox # NoBox
  /\ detectedVehicles = << >>
  /\ Commit([State EXCEPT !.detectedVehicles = << imageVehicle(detection, adjustedBbox) >>])

\* the record of the frame's vehicle is built and set
RecordFrameVehicle ==
  /\ isVideo
  /\ detection # NoBox
  /\ detectedVehicles = << >>
  /\ Commit([State EXCEPT !.detectedVehicles = << videoVehicle(detection) >>])

RecordNext ==
  \/ ~isVideo /\ Standardize
  \/ ~isVideo /\ Detect
  \/ ~isVideo /\ Rescale
  \/ DetectFrame
  \/ RecordImageVehicle
  \/ RecordFrameVehicle

RecordSpec == ScaleInit /\ [][RecordNext]_vars

\* ---- the regions of the strategies ----
\* A bbox is << x, y, width, height >> of exact fractions, x and y possibly
\* negative (the detector's box may reach beyond the frame).

\* a + b
FracAdd(a, b) == Frac(a.num * b.den + b.num * a.den, a.den * b.den)

\* a * p / 100
FracTimes(a, p) == Frac(a.num * p, a.den * 100)

\* Math.max(0, a)
FracMax0(a) == IF a.num < 0 THEN Frac(0, 1) ELSE a

\* the regions of the three strategies for a bbox
strategyRegions(bbox) ==
  LET x == bbox[1]
      y == bbox[2]
      width == bbox[3]
      height == bbox[4]
  IN  << [name |-> "Full Vehicle (Adjusted)",
          region |-> [x |-> x,
                      y |-> FracMax0(FracAdd(y, FracTimes(height, -30))),
                      w |-> width,
                      h |-> FracTimes(height, 130)]],
         [name |-> "Upper Body Area",
          region |-> [x |-> FracAdd(x, FracTimes(width, 5)),
                      y |-> FracMax0(FracAdd(y, FracTimes(height, -5))),
                      w |-> FracTimes(width, 90),
                      h |-> FracTimes(height, 80)]],
         [name |-> "Main Body Panel",
          region |-> [x |-> FracAdd(x, FracTimes(width, 10)),
                      y |-> y,
                      w |-> FracTimes(width, 80),
                      h |-> FracTimes(height, 70)]] >>

\* boxes of the detector, some reaching beyond the left or the upper edge
RegionBoxes ==
  {<< Frac(x, 1), Frac(y, 1), Frac(w, 1), Frac(h, 1) >> :
     x \in {-20, -4, 0, 30}, y \in {-10, 0, 5, 40}, w \in {100, 200}, h \in {50, 100}}

\* what the sampling of a region comes to, here
RegionSamples ==
  {Pixels(<< >>), Pixels(<< [color |-> "Red", count |-> 60] >>), Throws}

RegionInit ==
  /\ SessionInit
  /\ PixelIdle
  /\ imageElement = [naturalWidth |-> 0, naturalHeight |-> 0]
  /\ standardizedCanvas = NoCanvas
  /\ detection \in {[vehicle |-> box, bbox |-> box] : box \in RegionBoxes}
  /\ adjustedBbox = NoBox
  /\ vehicleType = "car"
  /\ strategyIndex = 0
  /\ colorCounts = << >>
  /\ bestResult = NoResult
  /\ colorData = NoResult

\* the region of the next strategy is cropped from the media and sampled
SampleRegion == \E sample \in RegionSamples : RunStrategyOn(sample)

RegionNext == SampleRegion

RegionSpec == RegionInit /\ [][RegionNext]_vars

\* ---- the color taxonomy: rgbToHsl and getAdvancedColorName ----
\* A pixel is r, g, b of 0..255. Hue, saturation and lightness are exact
\* fractions (the rounding of the floating point operations is left out); the
\* pixels are taken where that rounding does not decide the name.

\* the number n; the decimal c / 100
N(n) == Frac(n, 1)
D(c) == Frac(c, 100)

\* a < b; a >= b
FracLt(a, b) == FracGt(b, a)
FracGe(a, b) == ~FracGt(b, a)

Max3(a, b, c) == IF a >= b /\ a >= c THEN a ELSE IF b >= c THEN b ELSE c
Min3(a, b, c) == IF a <= b /\ a <= c THEN a ELSE IF b <= c THEN b ELSE c

\* rgbToHsl: << h, s, l >>, h in degrees; max, min and diff in 255ths
rgbToHsl(r, g, b) ==
  LET max == Max3(r, g, b)
      min == Min3(r, g, b)
      diff == max - min
      l == Frac(max + min, 510)
      s == IF diff = 0 THEN Frac(0, 1)
           ELSE IF FracGt(l, D(50)) THEN Frac(diff, 510 - max - min)
           ELSE Frac(diff, max + min)
      h == IF diff = 0 THEN Frac(0, 1)
           ELSE IF max = r
           THEN Frac(60 * (g - b) + (IF g < b THEN 360 * diff ELSE 0), diff)
           ELSE IF max = g THEN Frac(60 * (b - r) + 120 * diff, diff)
           ELSE Frac(60 * (r - g) + 240 * diff, diff)
  IN  << h, s, l >>

\* a classifier that tries the orange band before the red one
getAdvancedColorName_OrangeBeforeRed(r, g, b) ==
  LET hsl == rgbToHsl(r, g, b)
      h == hsl[1]
      s == hsl[2]
      l == hsl[3]
      fallback ==
        "Mixed"
      purple ==
        IF FracGe(h, N(260)) /\ FracLt(h, N(300)) /\ FracGe(s, D(15))
        THEN IF FracGe(h, N(260)) /\ FracLt(h, N(280))
             THEN IF FracGt(l, D(70)) THEN "Lavender"
                  ELSE IF FracGt(l, D(60)) THEN "Light Purple"
                  ELSE IF FracGt(l, D(50)) THEN "Purple"
                  ELSE IF FracGt(l, D(40)) THEN "Violet"
                  ELSE "Dark Purple"
             ELSE IF FracGe(h, N(280)) /\ FracLt(h, N(300))
             THEN IF FracGt(l, D(70)) THEN "Light Purple"
                  ELSE IF FracGt(l, D(60)) THEN "Purple"
                  ELSE IF FracGt(l, D(50)) THEN "Plum"
                  ELSE IF FracGt(l, D(40)) THEN "Purple"
                  ELSE "Dark Purple"
             ELSE fallback
        ELSE fallback
      blue ==
        IF FracGe(h, N(170)) /\ FracLt(h, N(260)) /\ FracGe(s, D(15))
        THEN IF FracGe(h, N(170)) /\ FracLt(h, N(200))
             THEN IF FracGt(l, D(70)) THEN "Light Blue"
                  ELSE IF FracGt(l, D(60)) THEN "Sky Blue"
                  ELSE IF FracGt(l, D(50)) THEN "Blue"
                  ELSE IF FracGt(l, D(40)) THEN "Royal Blue"
                  ELSE IF FracGt(l, D(30)) THEN "Navy"
                  ELSE "Dark Navy"
             ELSE IF FracGe(h, N(200)) /\ FracLt(h, N(230))
             THEN IF FracGt(l, D(70)) THEN "Light Blue"
                  ELSE IF FracGt(l, D(60)) THEN "Blue"
                  ELSE IF FracGt(l, D(50)) THEN "Cobalt"
                  ELSE IF FracGt(l, D(40)) THEN "Blue"
                  ELSE IF FracGt(l, D(30)) THEN "Navy"
                  ELSE "Midnight Blue"
             ELSE IF FracGe(h, N(230)) /\ FracLt(h, N(260))
             THEN IF FracGt(l, D(70)) THEN "Periwinkle"
                  ELSE IF FracGt(l, D(60)) THEN "Light Blue"
                  ELSE IF FracGt(l, D(50)) THEN "Blue"
                  ELSE IF FracGt(l, D(40)) THEN "Indigo"
                  ELSE "Dark Blue"
             ELSE purple
        ELSE purple
      green ==
        IF FracGe(h, N(70)) /\ FracLt(h, N(170)) /\ FracGe(s, D(10))
        THEN IF FracGe(h, N(70)) /\ FracLt(h, N(90))
             THEN IF FracGt(l, D(70)) THEN "Lime"
                  ELSE IF FracGt(l, D(60)) THEN "Light Green"
                  ELSE IF FracGt(l, D(50)) THEN "Green"
                  ELSE IF FracGt(l, D(40)) THEN "Forest Green"
                  ELSE "Dark Green"
             ELSE IF FracGe(h, N(90)) /\ FracLt(h, N(120))
             THEN IF FracGt(l, D(70)) THEN "Mint Green"
                  ELSE IF FracGt(l, D(60)) THEN "Light Green"
                  ELSE IF FracGt(l, D(50)) THEN "Green"
                  ELSE IF FracGt(l, D(40)) THEN "Emerald"
                  ELSE "Dark Green"
             ELSE IF FracGe(h, N(120)) /\ FracLt(h, N(150))
             THEN IF FracGt(l, D(70)) THEN "Seafoam"
                  ELSE IF FracGt(l, D(60)) THEN "Light Green"
                  ELSE IF FracGt(l, D(50)) THEN "Teal"
                  ELSE IF FracGt(l, D(40)) THEN "Green"
                  ELSE "Dark Teal"
             ELSE IF FracGe(h, N(150)) /\ FracLt(h, N(170))
             THEN IF FracGt(l, D(60)) THEN "Turquoise"
                  ELSE IF FracGt(l, D(50)) THEN "Cyan"
                  ELSE IF FracGt(l, D(40)) THEN "Teal"
                  ELSE "Dark Teal"
             ELSE blue
        ELSE blue
      yellow ==
        IF FracGe(h, N(40)) /\ FracLt(h, N(70)) /\ FracGe(s, D(20))
        THEN IF FracGt(l, D(80)) THEN "Cream"
             ELSE IF FracGt(l, D(70)) THEN "Light Yellow"
             ELSE IF FracGt(l, D(60)) THEN "Yellow"
             ELSE IF FracGt(l, D(50)) THEN "Gold"
             ELSE IF FracGt(l, D(40)) THEN "Mustard"
             ELSE "Amber"
        ELSE green
      pinkMagenta ==
        IF FracGe(h, N(300)) /\ FracLt(h, N(340)) /\ FracGe(s, D(15))
        THEN IF FracGt(l, D(75)) THEN "Light Pink"
             ELSE IF FracGt(l, D(65)) THEN "Pink"
             ELSE IF FracGt(l, D(55)) THEN "Hot Pink"
             ELSE IF FracGt(l, D(45)) THEN "Fuchsia"
             ELSE IF FracGt(l, D(35)) THEN "Magenta"
             ELSE "Deep Pink"
        ELSE yellow
      red ==
        IF (FracGe(h, N(340)) \/ FracLt(h, N(20))) /\ FracGe(s, D(12))
        THEN IF FracGt(l, D(75)) THEN "Light Pink"
             ELSE IF FracGt(l, D(65)) THEN "Rose"
             ELSE IF FracGt(l, D(55)) THEN "Light Red"
             ELSE IF FracGt(l, D(45)) THEN "Red"
             ELSE IF FracGt(l, D(35)) THEN "Crimson"
             ELSE IF FracGt(l, D(25)) THEN "Dark Red"
             ELSE "Maroon"
        ELSE pinkMagenta
      orange ==
        IF FracGe(h, N(10)) /\ FracLt(h, N(40)) /\ FracGe(s, D(20))
        THEN IF FracGt(l, D(75)) THEN "Peach"
             ELSE IF FracGt(l, D(65)) THEN "Light Orange"
             ELSE IF FracGt(l, D(55)) THEN "Orange"
             ELSE IF FracGt(l, D(45)) THEN "Burnt Orange"
             ELSE IF FracGt(l, D(35)) THEN "Dark Orange"
             ELSE "Rust"
        ELSE red
      brownTan ==
        IF FracGe(s, D(8)) /\ FracLt(s, D(40)) /\ FracGe(h, N(15)) /\ FracLt(h, N(55))
        THEN IF FracGt(l, D(70)) THEN "Cream"
             ELSE IF FracGt(l, D(60)) THEN "Beige"
             ELSE IF FracGt(l, D(50)) THEN "Tan"
             ELSE IF FracGt(l, D(40)) THEN "Light Brown"
             ELSE IF FracGt(l, D(30)) THEN "Brown"
             ELSE IF FracGt(l, D(20)) THEN "Dark Brown"
             ELSE "Chocolate"
        ELSE orange
      lowSaturation ==
        IF FracLt(s, D(8))
        THEN IF FracGt(l, D(85)) THEN "Pearl White"
             ELSE IF FracGt(l, D(75)) THEN "Silver"
             ELSE IF FracGt(l, D(65)) THEN "Light Gray"
             ELSE IF FracGt(l, D(55)) THEN "Medium Gray"
             ELSE IF FracGt(l, D(45)) THEN "Gray"
             ELSE IF FracGt(l, D(35)) THEN "Dark Gray"
             ELSE IF FracGt(l, D(25)) THEN "Charcoal"
             ELSE "Black"
        ELSE brownTan
      veryLight ==
        IF FracGt(l, D(88)) /\ FracLt(s, D(15)) THEN "White" ELSE lowSaturation
      veryDark ==
        IF FracLt(l, D(12)) THEN "Black" ELSE veryLight
  IN  veryDark

\* getAdvancedColorName: the chain of if statements, each name below standing
\* for the chain from that statement on
getAdvancedColorName(r, g, b) ==
  LET hsl == rgbToHsl(r, g, b)
      h == hsl[1]
      s == hsl[2]
      l == hsl[3]
      fallback ==
        "Mixed"
      purple ==
        IF FracGe(h, N(260)) /\ FracLt(h, N(300)) /\ FracGe(s, D(15))
        THEN IF FracGe(h, N(260)) /\ FracLt(h, N(280))
             THEN IF FracGt(l, D(70)) THEN "Lavender"
                  ELSE IF FracGt(l, D(60)) THEN "Light Purple"
                  ELSE IF FracGt(l, D(50)) THEN "Purple"
                  ELSE IF FracGt(l, D(40)) THEN "Violet"
                  ELSE "Dark Purple"
             ELSE IF FracGe(h, N(280)) /\ FracLt(h, N(300))
             THEN IF FracGt(l, D(70)) THEN "Light Purple"
                  ELSE IF FracGt(l, D(60)) THEN "Purple"
                  ELSE IF FracGt(l, D(50)) THEN "Plum"
                  ELSE IF FracGt(l, D(40)) THEN "Purple"
                  ELSE "Dark Purple"
             ELSE fallback
        ELSE fallback
      blue ==
        IF FracGe(h, N(170)) /\ FracLt(h, N(260)) /\ FracGe(s, D(15))
        THEN IF FracGe(h, N(170)) /\ FracLt(h, N(200))
             THEN IF FracGt(l, D(70)) THEN "Light Blue"
                  ELSE IF FracGt(l, D(60)) THEN "Sky Blue"
                  ELSE IF FracGt(l, D(50)) THEN "Blue"
                  ELSE IF FracGt(l, D(40)) THEN "Royal Blue"
                  ELSE IF FracGt(l, D(30)) THEN "Navy"
                  ELSE "Dark Navy"
             ELSE IF FracGe(h, N(200)) /\ FracLt(h, N(230))
             THEN IF FracGt(l, D(70)) THEN "Light Blue"
                  ELSE IF FracGt(l, D(60)) THEN "Blue"
                  ELSE IF FracGt(l, D(50)) THEN "Cobalt"
                  ELSE IF FracGt(l, D(40)) THEN "Blue"
                  ELSE IF FracGt(l, D(30)) THEN "Navy"
                  ELSE "Midnight Blue"
             ELSE IF FracGe(h, N(230)) /\ FracLt(h, N(260))
             THEN IF FracGt(l, D(70)) THEN "Periwinkle"
                  ELSE IF FracGt(l, D(60)) THEN "Light Blue"
                  ELSE IF FracGt(l, D(50)) THEN "Blue"
                  ELSE IF FracGt(l, D(40)) THEN "Indigo"
                  ELSE "Dark Blue"
             ELSE purple
        ELSE purple
      green ==
        IF FracGe(h, N(70)) /\ FracLt(h, N(170)) /\ FracGe(s, D(10))
        THEN IF FracGe(h, N(70)) /\ FracLt(h, N(90))
             THEN IF FracGt(l, D(70)) THEN "Lime"
                  ELSE IF FracGt(l, D(60)) THEN "Light Green"
                  ELSE IF FracGt(l, D(50)) THEN "Green"
                  ELSE IF FracGt(l, D(40)) THEN "Forest Green"
                  ELSE "Dark Green"
             ELSE IF FracGe(h, N(90)) /\ FracLt(h, N(120))
             THEN IF FracGt(l, D(70)) THEN "Mint Green"
                  ELSE IF FracGt(l, D(60)) THEN "Light Green"
                  ELSE IF FracGt(l, D(50)) THEN "Green"
                  ELSE IF FracGt(l, D(40)) THEN "Emerald"
                  ELSE "Dark Green"
             ELSE IF FracGe(h, N(120)) /\ FracLt(h, N(150))
             THEN IF FracGt(l, D(70)) THEN "Seafoam"
                  ELSE IF FracGt(l, D(60)) THEN "Light Green"
                  ELSE IF FracGt(l, D(50)) THEN "Teal"
                  ELSE IF FracGt(l, D(40)) THEN "Green"
                  ELSE "Dark Teal"
             ELSE IF FracGe(h, N(150)) /\ FracLt(h, N(170))
             THEN IF FracGt(l, D(60)) THEN "Turquoise"
                  ELSE IF FracGt(l, D(50)) THEN "Cyan"
                  ELSE IF FracGt(l, D(40)) THEN "Teal"
                  ELSE "Dark Teal"
             ELSE blue
        ELSE blue
      yellow ==
        IF FracGe(h, N(40)) /\ FracLt(h, N(70)) /\ FracGe(s, D(20))
        THEN IF FracGt(l, D(80)) THEN "Cream"
             ELSE IF FracGt(l, D(70)) THEN "Light Yellow"
             ELSE IF FracGt(l, D(60)) THEN "Yellow"
             ELSE IF FracGt(l, D(50)) THEN "Gold"
             ELSE IF FracGt(l, D(40)) THEN "Mustard"
             ELSE "Amber"
        ELSE green
      orange ==
        IF FracGe(h, N(10)) /\ FracLt(h, N(40)) /\ FracGe(s, D(20))
        THEN IF FracGt(l, D(75)) THEN "Peach"
             ELSE IF FracGt(l, D(65)) THEN "Light Orange"
             ELSE IF FracGt(l, D(55)) THEN "Orange"
             ELSE IF FracGt(l, D(45)) THEN "Burnt Orange"
             ELSE IF FracGt(l, D(35)) THEN "Dark Orange"
             ELSE "Rust"
        ELSE yellow
      pinkMagenta ==
        IF FracGe(h, N(300)) /\ FracLt(h, N(340)) /\ FracGe(s, D(15))
        THEN IF FracGt(l, D(75)) THEN "Light Pink"
             ELSE IF FracGt(l, D(65)) THEN "Pink"
             ELSE IF FracGt(l, D(55)) THEN "Hot Pink"
             ELSE IF FracGt(l, D(45)) THEN "Fuchsia"
             ELSE IF FracGt(l, D(35)) THEN "Magenta"
             ELSE "Deep Pink"
        ELSE orange
      red ==
        IF (FracGe(h, N(340)) \/ FracLt(h, N(20))) /\ FracGe(s, D(12))
        THEN IF FracGt(l, D(75)) THEN "Light Pink"
             ELSE IF FracGt(l, D(65)) THEN "Rose"
             ELSE IF FracGt(l, D(55)) THEN "Light Red"
             ELSE IF FracGt(l, D(45)) THEN "Red"
             ELSE IF FracGt(l, D(35)) THEN "Crimson"
             ELSE IF FracGt(l, D(25)) THEN "Dark Red"
             ELSE "Maroon"
        ELSE pinkMagenta
      brownTan ==
        IF FracGe(s, D(8)) /\ FracLt(s, D(40)) /\ FracGe(h, N(15)) /\ FracLt(h, N(55))
        THEN IF FracGt(l, D(70)) THEN "Cream"
             ELSE IF FracGt(l, D(60)) THEN "Beige"
             ELSE IF FracGt(l, D(50)) THEN "Tan"
             ELSE IF FracGt(l, D(40)) THEN "Light Brown"
             ELSE IF FracGt(l, D(30)) THEN "Brown"
             ELSE IF FracGt(l, D(20)) THEN "Dark Brown"
             ELSE "Chocolate"
        ELSE red
      lowSaturation ==
        IF FracLt(s, D(8))
        THEN IF FracGt(l, D(85)) THEN "Pearl White"
             ELSE IF FracGt(l, D(75)) THEN "Silver"
             ELSE IF FracGt(l, D(65)) THEN "Light Gray"
             ELSE IF FracGt(l, D(55)) THEN "Medium Gray"
             ELSE IF FracGt(l, D(45)) THEN "Gray"
             ELSE IF FracGt(l, D(35)) THEN "Dark Gray"
             ELSE IF FracGt(l, D(25)) THEN "Charcoal"
             ELSE "Black"
        ELSE brownTan
      veryLight ==
        IF FracGt(l, D(88)) /\ FracLt(s, D(15)) THEN "White" ELSE lowSaturation
      veryDark ==
        IF FracLt(l, D(12)) THEN "Black" ELSE veryLight
  IN  veryDark

\* pixels of every band and bucket, of the overlaps of the bands, of the gaps
\* between them and of some band edges, as << r, g, b >>
TaxonomyTriples ==
  {
     << 0, 0, 0 >>, << 0, 0, 6 >>, << 0, 0, 63 >>, << 0, 0, 210 >>, << 0, 6, 0 >>,
     << 0, 6, 6 >>, << 0, 6, 12 >>, << 0, 12, 6 >>, << 0, 12, 18 >>, << 0, 12, 63 >>,
     << 0, 18, 6 >>, << 0, 18, 12 >>, << 0, 30, 156 >>, << 0, 36, 210 >>, << 0, 42, 63 >>,
     << 0, 43, 63 >>, << 0, 63, 0 >>, << 0, 63, 6 >>, << 0, 63, 36 >>, << 0, 72, 36 >>,
     << 0, 108, 156 >>, << 0, 120, 180 >>, << 0, 144, 210 >>, << 0, 144, 216 >>,
     << 0, 210, 0 >>, << 0, 210, 6 >>, << 0, 210, 108 >>, << 0, 216, 108 >>, << 6, 0, 0 >>,
     << 6, 0, 6 >>, << 6, 0, 12 >>, << 6, 0, 18 >>, << 6, 6, 0 >>, << 6, 6, 252 >>,
     << 6, 12, 0 >>, << 6, 18, 0 >>, << 6, 48, 252 >>, << 6, 63, 0 >>, << 6, 170, 252 >>,
     << 6, 174, 252 >>, << 6, 210, 0 >>, << 6, 252, 6 >>, << 6, 252, 12 >>, << 6, 252, 132 >>,
     << 12, 0, 6 >>, << 12, 0, 18 >>, << 12, 6, 0 >>, << 12, 18, 0 >>, << 12, 252, 6 >>,
     << 12, 252, 132 >>, << 18, 0, 24 >>, << 18, 6, 0 >>, << 18, 12, 0 >>, << 18, 18, 24 >>,
     << 24, 0, 63 >>, << 24, 0, 72 >>, << 24, 6, 0 >>, << 24, 18, 12 >>, << 24, 18, 24 >>,
     << 30, 6, 0 >>, << 30, 30, 36 >>, << 30, 36, 30 >>, << 36, 6, 0 >>, << 36, 24, 18 >>,
     << 36, 24, 42 >>, << 36, 30, 18 >>, << 36, 30, 36 >>, << 36, 36, 36 >>, << 36, 42, 24 >>,
     << 36, 42, 30 >>, << 36, 42, 36 >>, << 42, 12, 54 >>, << 42, 24, 24 >>, << 42, 24, 36 >>,
     << 42, 24, 42 >>, << 42, 30, 24 >>, << 42, 36, 24 >>, << 42, 36, 30 >>, << 42, 36, 42 >>,
     << 42, 42, 24 >>, << 43, 30, 24 >>, << 43, 36, 24 >>, << 48, 24, 18 >>, << 48, 30, 18 >>,
     << 48, 30, 24 >>, << 48, 42, 24 >>, << 54, 24, 18 >>, << 54, 30, 18 >>, << 54, 42, 18 >>,
     << 54, 54, 255 >>, << 54, 60, 63 >>, << 54, 191, 255 >>, << 54, 255, 54 >>,
     << 54, 255, 60 >>, << 54, 255, 156 >>, << 60, 24, 12 >>, << 60, 48, 42 >>,
     << 60, 48, 43 >>, << 60, 54, 42 >>, << 60, 54, 43 >>, << 60, 54, 72 >>, << 60, 66, 63 >>,
     << 60, 72, 78 >>, << 60, 252, 156 >>, << 60, 255, 54 >>, << 63, 48, 42 >>,
     << 63, 54, 42 >>, << 63, 60, 42 >>, << 63, 63, 66 >>, << 63, 66, 60 >>, << 63, 66, 63 >>,
     << 66, 54, 72 >>, << 66, 63, 66 >>, << 72, 0, 210 >>, << 72, 0, 216 >>, << 72, 48, 36 >>,
     << 72, 54, 48 >>, << 72, 60, 36 >>, << 72, 60, 54 >>, << 78, 54, 54 >>, << 84, 54, 48 >>,
     << 84, 60, 54 >>, << 84, 64, 60 >>, << 84, 84, 96 >>, << 84, 96, 84 >>, << 85, 78, 72 >>,
     << 85, 102, 0 >>, << 90, 6, 252 >>, << 90, 12, 246 >>, << 90, 72, 64 >>, << 96, 72, 60 >>,
     << 96, 72, 63 >>, << 96, 72, 64 >>, << 96, 78, 60 >>, << 96, 84, 60 >>, << 96, 84, 96 >>,
     << 96, 85, 60 >>, << 102, 48, 30 >>, << 102, 78, 78 >>, << 108, 72, 85 >>,
     << 108, 72, 108 >>, << 108, 108, 126 >>, << 108, 108, 252 >>, << 108, 120, 85 >>,
     << 108, 120, 96 >>, << 108, 120, 126 >>, << 108, 126, 108 >>, << 108, 138, 252 >>,
     << 108, 210, 252 >>, << 108, 252, 108 >>, << 108, 252, 114 >>, << 114, 78, 127 >>,
     << 114, 78, 132 >>, << 114, 90, 78 >>, << 114, 102, 78 >>, << 114, 252, 108 >>,
     << 120, 72, 60 >>, << 120, 96, 85 >>, << 120, 102, 85 >>, << 120, 114, 120 >>,
     << 120, 114, 132 >>, << 120, 126, 84 >>, << 120, 127, 85 >>, << 120, 132, 126 >>,
     << 120, 210, 255 >>, << 126, 54, 255 >>, << 126, 63, 252 >>, << 126, 96, 84 >>,
     << 126, 102, 84 >>, << 126, 102, 90 >>, << 126, 114, 84 >>, << 126, 114, 90 >>,
     << 126, 132, 120 >>, << 127, 84, 54 >>, << 128, 192, 64 >>, << 132, 102, 102 >>,
     << 132, 114, 78 >>, << 132, 132, 150 >>, << 132, 144, 114 >>, << 132, 150, 132 >>,
     << 138, 96, 114 >>, << 138, 96, 138 >>, << 138, 108, 150 >>, << 138, 150, 144 >>,
     << 144, 54, 36 >>, << 144, 72, 36 >>, << 144, 72, 48 >>, << 144, 84, 64 >>,
     << 144, 84, 174 >>, << 144, 90, 63 >>, << 144, 102, 90 >>, << 144, 126, 114 >>,
     << 144, 128, 120 >>, << 144, 138, 144 >>, << 144, 150, 138 >>, << 150, 114, 102 >>,
     << 150, 120, 60 >>, << 150, 120, 108 >>, << 150, 156, 102 >>, << 156, 108, 252 >>,
     << 156, 126, 102 >>, << 156, 126, 126 >>, << 156, 144, 102 >>, << 156, 150, 138 >>,
     << 156, 170, 138 >>, << 156, 180, 132 >>, << 162, 108, 252 >>, << 162, 114, 96 >>,
     << 162, 120, 138 >>, << 162, 120, 162 >>, << 162, 144, 108 >>, << 162, 162, 170 >>,
     << 162, 170, 162 >>, << 162, 174, 168 >>, << 168, 96, 72 >>, << 168, 102, 63 >>,
     << 168, 108, 96 >>, << 168, 120, 96 >>, << 168, 126, 114 >>, << 168, 128, 120 >>,
     << 168, 156, 144 >>, << 168, 174, 162 >>, << 170, 162, 170 >>, << 170, 186, 90 >>,
     << 174, 102, 66 >>, << 174, 180, 127 >>, << 180, 108, 84 >>, << 180, 144, 127 >>,
     << 180, 150, 127 >>, << 180, 156, 156 >>, << 180, 168, 127 >>, << 180, 168, 162 >>,
     << 180, 174, 162 >>, << 180, 191, 168 >>, << 180, 204, 156 >>, << 186, 150, 78 >>,
     << 186, 150, 132 >>, << 186, 150, 168 >>, << 186, 150, 186 >>, << 186, 168, 132 >>,
     << 186, 168, 191 >>, << 186, 198, 192 >>, << 191, 126, 90 >>, << 191, 162, 156 >>,
     << 191, 170, 162 >>, << 191, 174, 168 >>, << 191, 180, 168 >>, << 191, 191, 192 >>,
     << 191, 192, 191 >>, << 191, 198, 156 >>, << 192, 120, 96 >>, << 192, 128, 96 >>,
     << 192, 144, 128 >>, << 192, 144, 216 >>, << 192, 191, 192 >>, << 192, 198, 186 >>,
     << 198, 180, 162 >>, << 198, 191, 162 >>, << 198, 198, 162 >>, << 204, 156, 128 >>,
     << 204, 156, 132 >>, << 204, 170, 156 >>, << 204, 174, 114 >>, << 204, 180, 180 >>,
     << 204, 180, 191 >>, << 204, 180, 204 >>, << 204, 192, 186 >>, << 204, 198, 186 >>,
     << 210, 170, 162 >>, << 210, 174, 156 >>, << 210, 186, 180 >>, << 210, 192, 156 >>,
     << 216, 144, 120 >>, << 216, 192, 144 >>, << 222, 186, 162 >>, << 222, 222, 191 >>,
     << 222, 222, 222 >>, << 222, 222, 228 >>, << 222, 228, 222 >>, << 228, 180, 156 >>,
     << 228, 222, 228 >>, << 228, 228, 228 >>, << 234, 186, 170 >>, << 234, 216, 180 >>,
     << 234, 228, 228 >>
  }

TaxonomyPixels ==
  { [r |-> p[1], g |-> p[2], b |-> p[3]] : p \in TaxonomyTriples }

TaxonomyInit ==
  /\ SessionInit
  /\ ExtractorIdle
  /\ ScalingIdle
  /\ pixel \in TaxonomyPixels
  /\ pixelColorName = ""

\* const colorName = getAdvancedColorName(r, g, b)
ClassifyPixel ==
  /\ pixelColorName = ""
  /\ pixelColorName' = getAdvancedColorName(pixel.r, pixel.g, pixel.b)
  /\ UNCHANGED << pixel, sessionVars, extractorVars, scalingVars >>

TaxonomyNext == ClassifyPixel

TaxonomySpec == TaxonomyInit /\ [][TaxonomyNext]_vars

\* ---- properties ----

\* continuous mode is on with a detector to run: the model is loaded and the
\* two copies of the running flag are set
Running == model = "loaded" /\ continuousDetection /\ continuousDetectionRef

LoopPasses == PassCount(State, "loop")

\* passes in flight that were started for media m
PassesOf(m) ==
  LET ps == {p \in BagToSet(passes) : p.media = m}
      RECURSIVE Sum(_)
      Sum(T) == IF T = {} THEN 0
                ELSE LET p == CHOOSE q \in T : TRUE
                     IN  CopiesIn(p, passes) + Sum(T \ {p})
  IN  Sum(ps)

StalePassInFlight == \E p \in BagToSet(passes) : p.media # fileUrl

\* the detector rejects the call of a pass of the loop
LoopPassRejected ==
  \E p \in BagToSet(passes) :
    /\ p.kind = "loop"
    /\ Commit(detectVehiclesInVideoDone(State, p, [ok |-> FALSE, preds |-> << >>]))

\* the Auto-Detect button is clicked while continuous mode is on / off
ToggleStop == continuousDetection /\ ClickToggle
ToggleStart == ~continuousDetection /\ ClickToggle

\* a play() promise of the start is rejected: at once (playback not allowed),
\* or by the task of a pause that found the promise still pending
PlayRejected ==
  \/ /\ ToggleStart /\ paused
     /\ Commit(toggleContinuousDetection(State, FALSE))
  \/ /\ FirePause
     /\ Head(mediaTasks).promises > 0

\* C1: a result that arrives for a pass started on a previous media is
\* discarded: every record of the session's record set was detected on the
\* active media.
C1_StaleResultDiscarded ==
  \A i \in DOMAIN detectedVehicles : detectedVehicles[i].media = fileUrl

\* C2: when the play listener resumes the loop after a pause, exactly one loop
\* is active afterwards: never two iterations scheduled or in flight at once.
C2_ResumeKeepsOneLoop ==
  [][FirePlay => (LoopPasses' + Cardinality(rafPending') <= 1)]_vars

\* C3: starting continuous mode and stopping it before the first iteration
\* fires executes no detection pass; the stop may be the very next step, so
\* the start request itself must not have called the detector.
C3_StartRunsNoPass ==
  [][ToggleStart => (passes' = passes)]_vars

\* C4: for one media item at most one detection pass is in flight at any time.
C4_OnePassInFlight ==
  \A m \in 0..MaxMedia : PassesOf(m) <= 1

\* C5: loading a new media item leaves, in that one step, an empty record
\* set, hasAttemptedDetection false, no last detection timestamp and
\* continuous mode off in both the state flag and the ref.
C5_LoadResetsSession ==
  [][(fileUrl' # fileUrl) =>
       /\ Len(detectedVehicles') = 0
       /\ hasAttemptedDetection' = FALSE
       /\ lastDetectionTimestamp' = Null
       /\ continuousDetection' = FALSE
       /\ continuousDetectionRef' = FALSE]_vars

\* C5 witness: a new media item was loaded while a pass of the previous media
\* was still awaiting the detector, and the session is reset.
C5_Witness ==
  /\ fileUrl > 0
  /\ StalePassInFlight
  /\ detectedVehicles = << >>
  /\ ~hasAttemptedDetection
  /\ lastDetectionTimestamp = Null
  /\ ~continuousDetection /\ ~continuousDetectionRef

\* C6: after continuous mode is stopped, running is false and no scheduled
\* loop iteration remains pending.
C6_StopCancelsAllFrames ==
  [][ToggleStop =>
       /\ continuousDetection' = FALSE
       /\ continuousDetectionRef' = FALSE
       /\ rafPending' = {}]_vars

\* while the video is paused no step starts a pass of the loop or schedules
\* an iteration
PausedLoopIdle ==
  paused => /\ LoopPasses' <= LoopPasses
            /\ rafPending' \subseteq rafPending

\* a loop iteration that fires or completes on the paused video leaves running as it is
PausedIterationKeepsRunning ==
  (paused /\ ~ended /\ (FrameCallback \/ LoopPassCompletes \/ FirePlay \/ FirePlaying)) =>
     /\ continuousDetection' = continuousDetection
     /\ continuousDetectionRef' = continuousDetectionRef

C8_EndedClearsRunning ==
  (model = "loaded" /\ ended /\ paused /\ mediaTasks = << >> /\ rafPending = {}
     /\ LoopPasses = 0)
    => (~continuousDetection /\ ~continuousDetectionRef)

\* C9: when the detector fails in a loop iteration and afterwards running is
\* still true and the video neither paused nor ended, the next iteration is
\* scheduled.
C9_ErrorKeepsLoop ==
  [][(LoopPassRejected /\ continuousDetectionRef' /\ ~paused' /\ ~ended') =>
       /\ animationFrameRef' \in rafPending'
       /\ Cardinality(rafPending') = Cardinality(rafPending) + 1
       /\ LoopPasses' = LoopPasses - 1]_vars

\* C9 witness: the detection error is on display, no pass is in flight, and
\* the loop is running with its next iteration scheduled.
C9_Witness ==
  /\ showAlert /\ alertMessage = MsgErrorVideo
  /\ continuousDetectionRef /\ ~paused /\ ~ended
  /\ passes = EmptyBag
  /\ animationFrameRef \in rafPending
  /\ detectedVehicles = << >>

\* C10: when play() rejects, running is reset in the ref and the state flag,
\* the playback message is raised, no iteration is scheduled and no detection
\* pass has been started.
C10_PlaybackFailureAborts ==
  [][PlayRejected =>
       /\ continuousDetection' = FALSE
       /\ continuousDetectionRef' = FALSE
       /\ showAlert' /\ alertMessage' = MsgPlayback
       /\ rafPending' = {}
       /\ LoopPasses' = 0]_vars

\* the detector call of a pass is rejected
Rejection == [ok |-> FALSE, preds |-> << >>]

ImagePassRejected ==
  \E p \in BagToSet(passes) :
    /\ p.kind = "image"
    /\ Commit(detectVehiclesInImageDone(State, p, Rejection))

ManualPassRejected ==
  \E p \in BagToSet(passes) :
    /\ p.kind = "manual"
    /\ Commit(handleDetectCurrentFrameDone(State, p, Rejection))

\* what every rejected pass does: the record set stays as it is and the error
\* message is raised
RejectionKeepsRecords ==
  (ImagePassRejected \/ ManualPassRejected \/ LoopPassRejected) =>
     /\ detectedVehicles' = detectedVehicles
     /\ showAlert'
     /\ alertMessage' \in {MsgErrorImage, MsgErrorVideo}

C17_RunningCheckedEachIteration ==
  [][/\ (FrameCallback /\ ~continuousDetectionRef) =>
          /\ passes' = passes
          /\ rafPending' \subseteq rafPending
          /\ Cardinality(rafPending') = Cardinality(rafPending) - 1
     /\ (LoopPassCompletes /\ ~continuousDetectionRef) =>
          /\ rafPending' = rafPending
          /\ animationFrameRef' = animationFrameRef
          /\ LoopPasses' = LoopPasses - 1]_vars

\* C17 witness: continuous mode has been stopped on the playing video while
\* an iteration of the loop is still scheduled and a pass of the loop is still
\* awaiting the detector.
C17_Witness ==
  /\ model = "loaded" /\ isVideo
  /\ ~continuousDetectionRef /\ ~continuousDetection
  /\ ~paused /\ ~ended
  /\ rafPending # {}
  /\ LoopPasses > 0

\* C18: a start on the paused video begins the loop only once playback is
\* confirmed, and begins one loop: the play event that follows the start's
\* play() request starts nothing while the promise is unsettled, and after
\* the continuation of play() ran there is one chain of the loop, not two.
C18_StartBeginsOneLoop ==
  [][/\ (FirePlay /\ playPending + TaskPromises(mediaTasks) > 0) =>
          /\ LoopPasses' = LoopPasses
          /\ rafPending' = rafPending
     /\ (FirePlaying /\ Head(mediaTasks).promises > 0) =>
          LoopPasses' + Cardinality(rafPending') <= 1]_vars

\* C19: lastDetectionTimestamp is updated only together with the records of
\* its pass: whenever records and a timestamp are both present, the timestamp
\* is the formatted playback time of the pass that produced the records.
C19_TimestampOfCurrentRecords ==
  (isVideo /\ detectedVehicles # << >> /\ lastDetectionTimestamp # Null) =>
     lastDetectionTimestamp = formatVideoTime(detectedVehicles[1].time * TickCs)

\* the vehicle predictions among the first j predictions
VehiclesUpTo(preds, j) == {l \in 1..j : preds[l] \in vehicleClasses}

\* records are the vehicle predictions of preds, in the detector's order, numbered from 0
InDetectorOrder(preds, records) ==
  /\ Len(records) = Cardinality(VehiclesUpTo(preds, Len(preds)))
  /\ \A j \in 1..Len(preds) :
       preds[j] \in vehicleClasses =>
         LET k == Cardinality(VehiclesUpTo(preds, j))
         IN  /\ records[k].class = preds[j]
             /\ records[k].id = k - 1

\* C12: every record of the record set has a vehicle class and the ids of the
\* set are 0..n-1; when a pass (image or video) succeeds, its records are the
\* vehicle predictions of the detector result in the detector's order, so a
\* prediction of another class produces no record.
C12_RecordsAreVehiclesInOrder ==
  /\ [](\A i \in DOMAIN detectedVehicles :
          /\ detectedVehicles[i].class \in vehicleClasses
          /\ detectedVehicles[i].id = i - 1)
  /\ [][\A p \in BagToSet(passes), o \in WideOutcomes :
          (o.ok /\ \/ Commit(handleDetectCurrentFrameDone(State, p, o))
                   \/ Commit(detectVehiclesInImageDone(State, p, o)))
            => InDetectorOrder(o.preds, detectedVehicles')]_vars

\* C12 witness: a pass has left two records of different classes, numbered 0
\* and 1, after an earlier pass on the previous media.
C12_Witness ==
  /\ Len(detectedVehicles) = 2
  /\ detectedVehicles[1].class = "truck" /\ detectedVehicles[1].id = 0
  /\ detectedVehicles[2].class = "car" /\ detectedVehicles[2].id = 1
  /\ fileUrl > 0

\* the default color the claim names for a class
ClaimedDefaultColor(type) ==
  CASE type = "car" -> "Silver"
    [] type \in {"truck", "Truck"} -> "White"
    [] type = "bus" -> "Yellow"
    [] type = "motorcycle" -> "Black"
    [] type = "bicycle" -> "Blue"
    [] type = "airplane" -> "White"
    [] type = "boat" -> "White"
    [] type = "train" -> "Gray"
    [] OTHER -> "Gray"

\* r is the class default of type: its color, confidence 0.3, method fallback
IsClassDefault(r, type) ==
  /\ r.color = ClaimedDefaultColor(type)
  /\ (type = "truck" => r.colorHex = "#FFFFFF")
  /\ r.confidence.num * 10 = 3 * r.confidence.den
  /\ r.method = "fallback"

\* every strategy failed or offered a confidence of at most 0.2
AllStrategiesLow ==
  /\ strategyIndex = Len(strategies)
  /\ bestResult # NoResult => 10 * bestResult.confidence.num <= 2 * bestResult.confidence.den

\* C13: when every region strategy yielded a confidence of at most 0.2 (or
\* failed) and the center sample has fewer than 5 valid pixels (or fails), the
\* call returns the class default color at confidence 0.3 with method fallback.
C13_ExhaustedChainGivesClassDefault ==
  [][(/\ AllStrategiesLow
      /\ \E sample \in CenterSamples :
           /\ CenterSamplingOn(sample)
           /\ sample.kind # "pixels" \/ totalCount(sample.counts) < 5)
       => IsClassDefault(colorData', vehicleType)]_vars

\* C13 witness: for a truck the strategies offered a result of low confidence,
\* the center sampling gave nothing, and White #FFFFFF was returned as fallback.
C13_Witness ==
  /\ vehicleType = "truck"
  /\ strategyIndex = Len(strategies)
  /\ bestResult # NoResult
  /\ colorData.color = "White" /\ colorData.colorHex = "#FFFFFF"
  /\ colorData.method = "fallback"
  /\ colorData.debugInfo = "All strategies failed, using fallback"

\* C14: the extractor never raises: a region whose pixels cannot be read is
\* skipped and the next strategy is tried with bestResult untouched, a failed
\* center sampling gives the class default, any other error gives the class
\* default with a diagnostic, and a result other than that error result is
\* returned only after all three strategies were tried.
C14_ExtractionNeverRaises ==
  /\ [][/\ RunStrategyOn(Throws) =>
             /\ strategyIndex' = strategyIndex + 1
             /\ bestResult' = bestResult
             /\ colorData' = NoResult
        /\ CenterSamplingOn(Throws) =>
             /\ IsClassDefault(colorData', vehicleType)
             /\ colorData'.debugInfo # ""
        /\ (OuterCatch /\ ~CenterSampling) =>
             /\ IsClassDefault(colorData', vehicleType)
             /\ colorData'.debugInfo = "Error: TypeError"]_vars
  /\ []((colorData # NoResult /\ colorData.debugInfo # "Error: TypeError")
          => strategyIndex = Len(strategies))

\* C14 witness: all three strategies failed, so did the center sampling, and
\* the call returned the class default.
C14_Witness ==
  /\ strategyIndex = Len(strategies)
  /\ bestResult = NoResult
  /\ colorData.method = "fallback"
  /\ colorData.debugInfo = "All strategies failed, using fallback"

\* C15: every color name has one hex code: the colorHex of every result the
\* extractor holds or returns is the getColorHex entry of its color name
\* (#808080 for a name that is not in the table).
C15_OneHexPerName ==
  /\ colorData # NoResult => colorData.colorHex = getColorHex(colorData.color)
  /\ bestResult # NoResult => bestResult.colorHex = getColorHex(bestResult.color)

\* ---- the dominant color policy, stated without the sort ----

\* the most frequent entry, the one seen first among equals
TopEntry(entries) ==
  LET best == CHOOSE i \in 1..Len(entries) :
                /\ \A j \in 1..Len(entries) : entries[j].count <= entries[i].count
                /\ \A j \in 1..(i - 1) : entries[j].count < entries[i].count
  IN  entries[best]

NonNeutral(entries) == SelectSeq(entries, LAMBDA e : e.color \notin {"Black", "Dark Gray", "Charcoal", "Mixed"})

NonNeutralWins(entries) == 100 * totalCount(NonNeutral(entries)) > 30 * totalCount(entries)

\* the region strategy has analysed the histogram colorCounts
Analysed == strategyIndex = 1 /\ colorCounts # << >>

\* C20 as stated: when the non-neutral entries hold more than 30% of the valid
\* pixels the most frequent non-neutral entry is chosen, otherwise the most
\* frequent entry overall.
C20_DominantColorPolicy ==
  Analysed =>
    bestResult.color = IF NonNeutralWins(colorCounts)
                       THEN TopEntry(NonNeutral(colorCounts)).color
                       ELSE TopEntry(colorCounts).color

\* C20 amended: as stated, except that when the rule arrives at Mixed and the
\* histogram has a second entry, the second-ranked entry is chosen.
C20_DominantColorPolicyMixed ==
  Analysed =>
    LET first == IF NonNeutralWins(colorCounts)
                 THEN TopEntry(NonNeutral(colorCounts))
                 ELSE TopEntry(colorCounts)
        others == SelectSeq(colorCounts, LAMBDA e : e.color # "Mixed")
    IN  bestResult.color = IF first.color = "Mixed" /\ Len(colorCounts) > 1
                           THEN TopEntry(others).color
                           ELSE first.color

\* C20 witness: 35 non-neutral pixels against 65 neutral ones: Red was chosen.
C20_Witness ==
  /\ strategyIndex = 1
  /\ colorCounts = << [color |-> "Black", count |-> 65], [color |-> "Red", count |-> 35] >>
  /\ bestResult.color = "Red"

\* the fraction f is the whole number n up to a relative error of one millionth
CloseTo(f, n) ==
  LET diff == f.num - n * f.den
  IN  (IF diff < 0 THEN -diff ELSE diff) <= (n * f.den) \div 1000000

\* C16: for an image of any aspect ratio, a box of the image mapped into the
\* standardized frame and rescaled with scaleX = naturalWidth / canvas.width
\* and scaleY = naturalHeight / canvas.height is the original box again.
C16_RescaleRestoresBox ==
  adjustedBbox # NoBox =>
    \A i \in 1..4 : CloseTo(adjustedBbox[i], detection.vehicle[i])

\* ---- the running flag, the loop's progress, passes in flight ----

\* C27: the two copies of the running flag agree after every handler and
\* every loop step: continuousDetectionRef.current equals continuousDetection.
C27_RunningFlagsAgree == continuousDetectionRef = continuousDetection

\* C27 witness: a playback failure has reset continuous mode (its message is
\* on display) after the mode had been switched on, and both copies read false.
C27_Witness ==
  /\ showAlert /\ alertMessage = MsgPlayback
  /\ hasAttemptedDetection
  /\ ~continuousDetection /\ ~continuousDetectionRef

\* The loop with nobody ending it: a video session in which the user may
\* start continuous mode, detect single frames, play and pause, and in which
\* Stop, Try Another and a change of media are not invoked.
LoopInit == Init /\ isVideo

LoopNext ==
  \/ LoadModel
  \/ ClickDetectCurrentFrame
  \/ ToggleStart
  \/ CloseAlert
  \/ UserPlay
  \/ UserPause
  \/ PlaybackStarts
  \/ Tick
  \/ FirePlay
  \/ FirePause
  \/ FirePlaying
  \/ FireEnd
  \/ FrameCallback
  \/ LoopPassCompletes
  \/ ManualPassCompletes

\* What the browser is bound to do: the model load settles, queued media
\* tasks are dispatched, playback that was let to start does start, a
\* requested animation frame runs its callback, and a detector call settles.
\* Nothing obliges the user to click, nor the video to reach its end.
LoopFairness ==
  /\ WF_vars(LoadModel)
  /\ WF_vars(PlaybackStarts)
  /\ WF_vars(FirePlay)
  /\ WF_vars(FirePause)
  /\ WF_vars(FirePlaying)
  /\ WF_vars(FireEnd)
  /\ WF_vars(FrameCallback)
  /\ WF_vars(LoopPassCompletes)
  /\ WF_vars(ManualPassCompletes)

LoopSpec == LoopInit /\ [][LoopNext]_vars /\ LoopFairness

\* continuous mode is on and the video is playing and has not ended
LoopDue == continuousDetection /\ continuousDetectionRef /\ ~paused /\ ~ended

\* C29: the continuous loop never silently dies: when from some point on
\* continuous mode stays on and the video keeps playing without having ended,
\* detection passes of the loop are executed again and again.
C29_LoopNeverDies == (<>[]LoopDue) => ([]<>(LoopPasses > 0))

\* the same with a detector model at hand
C29_LoopNeverDiesWithModel ==
  (<>[](LoopDue /\ model = "loaded")) => ([]<>(LoopPasses > 0))

\* C30: whenever a detection pass is in flight, analyzing is true.
C30_PassInFlightIsAnalyzing == (passes # EmptyBag) => analyzing

\* C30 (consequence): the Try Another Analysis control is not offered while a
\* pass is in flight.
C30_NoTryAnotherInPass ==
  (passes # EmptyBag) => ~(ControlsShown /\ hasAttemptedDetection /\ ~analyzing)

\* ---- the selection among the strategies and the fallbacks ----

\* the strategies of the first n whose region gave a histogram
Evaluated(n) == {i \in 1..n : colorCounts[i].kind = "pixels"}

ResultOf(i) == strategyResult(i, colorCounts[i].counts)

\* i is the earliest of the evaluated strategies of the first n with the
\* highest confidence
EarliestBest(i, n) ==
  /\ i \in Evaluated(n)
  /\ \A j \in Evaluated(n) : ~FracGt(ResultOf(j).confidence, ResultOf(i).confidence)
  /\ \A j \in Evaluated(n) : j < i => FracGt(ResultOf(i).confidence, ResultOf(j).confidence)

\* the results the center sampling and the final fallback can give
CenterResults == {centerSampling(vehicleType, sample) : sample \in CenterSamples}

\* C22: once the three strategies have run, the result kept is that of the
\* evaluated strategy with the highest confidence, the earliest on ties; what
\* is returned is that result, with method pixel-analysis, if and only if its
\* confidence is strictly greater than 0.2, and otherwise what the center
\* sampling gives.
C22_StrategySelection ==
  (strategyIndex = Len(strategies)) =>
    /\ IF Evaluated(Len(strategies)) = {} THEN bestResult = NoResult
       ELSE \E i \in Evaluated(Len(strategies)) :
              EarliestBest(i, Len(strategies)) /\ bestResult = ResultOf(i)
    /\ (colorData # NoResult) =>
         IF bestResult # NoResult /\ FracGt(bestResult.confidence, Frac(2, 10))
         THEN colorData = bestResult /\ colorData.method = "pixel-analysis"
         ELSE colorData \in CenterResults

\* C22 witness: the second and the third strategy tie on the highest
\* confidence, above that of the first, with different colors; the result of
\* the second has been returned.
C22_Witness ==
  /\ strategyIndex = Len(strategies)
  /\ Evaluated(Len(strategies)) = 1..Len(strategies)
  /\ FracGt(ResultOf(2).confidence, ResultOf(1).confidence)
  /\ ResultOf(3).confidence = ResultOf(2).confidence
  /\ ResultOf(3).color # ResultOf(2).color
  /\ colorData = ResultOf(2)

\* C22 witness of the other side: the best confidence is not above 0.2 and the
\* center sampling has given the result.
C22_WitnessLow ==
  /\ strategyIndex = Len(strategies)
  /\ bestResult # NoResult
  /\ ~FracGt(bestResult.confidence, Frac(2, 10))
  /\ colorData \in CenterResults

\* the center sampling runs on a sample of pixels
CenterSamplingOfPixels(sample) ==
  sample.kind = "pixels" /\ CenterSamplingOn(sample)

\* C21: the center sampling chooses the color the policy of the strategies
\* chooses for the same histogram, the second-ranked entry in place of Mixed
\* included.
C21_CenterPolicyIsStrategyPolicy ==
  [][\A sample \in CenterSamples :
       (CenterSamplingOfPixels(sample) /\ totalCount(sample.counts) > 5) =>
         colorData'.color = dominantColor(sample.counts).color]_vars

\* C23: a center sample of at least 5 valid pixels gives its color at the
\* confidence 0.3; only a sample of fewer goes to the class default.
C23_FivePixelsSuffice ==
  [][\A sample \in CenterSamples :
       CenterSamplingOfPixels(sample) =>
         IF totalCount(sample.counts) >= 5
         THEN /\ colorData'.method = "pixel-analysis"
              /\ colorData'.confidence = Frac(3, 10)
         ELSE colorData'.method = "fallback"]_vars

\* C28: no result the extractor returns bears the placeholder name Unknown.
C28_NeverUnknown == (colorData # NoResult) => colorData.color # "Unknown"

\* ---- the boxes of the records ----

\* a = b * n / d, for fractions a and b
IsScaled(a, b, n, d) == a.num * b.den * d = b.num * n * a.den

\* box is bbox with x and width multiplied by naturalWidth / canvas.width, and
\* y and height by naturalHeight / canvas.height
ScaledOnce(box, bbox) ==
  /\ IsScaled(box[1], bbox[1], imageElement.naturalWidth, standardizedCanvas.width)
  /\ IsScaled(box[2], bbox[2], imageElement.naturalHeight, standardizedCanvas.height)
  /\ IsScaled(box[3], bbox[3], imageElement.naturalWidth, standardizedCanvas.width)
  /\ IsScaled(box[4], bbox[4], imageElement.naturalHeight, standardizedCanvas.height)

\* C25: the bbox of the record of an image is the detector's box rescaled
\* once, and the color is extracted from that same box; the bbox of the record
\* of a video frame, and the box its color is extracted from, is the
\* detector's box unchanged.
C25_RescaledOnceForImagesOnly ==
  \A i \in 1..Len(detectedVehicles) :
    LET v == detectedVehicles[i]
    IN  /\ v.analysis.region = v.bbox
        /\ IF isVideo THEN v.bbox = detection.bbox
           ELSE ScaledOnce(v.bbox, detection.bbox) /\ v.debugImage.region = v.bbox

\* C25 witness: the record of an image that the canvas shows at another size,
\* its bbox differing from the detector's box.
C25_Witness ==
  /\ ~isVideo
  /\ detectedVehicles # << >>
  /\ detectedVehicles[1].bbox # detection.bbox
  /\ detectedVehicles[1].bbox[3] # Frac(0, 1)

\* C25 witness of the video side: the record of a frame's vehicle.
C25_WitnessVideo == isVideo /\ detectedVehicles # << >>

\* ---- the regions ----

\* the region the strategy that ran last was given
cropRegion == strategyRegions(detection.bbox)[strategyIndex].region

\* C26: the x and the y of the region of every strategy that has sampled are
\* not negative.
C26_RegionCoordinatesNonNegative ==
  (strategyIndex > 0) => (cropRegion.x.num >= 0 /\ cropRegion.y.num >= 0)

\* the same for the boxes that lie within the frame
C26_RegionOfInnerBoxNonNegative ==
  (strategyIndex > 0 /\ detection.bbox[1].num >= 0 /\ detection.bbox[2].num >= 0)
    => (cropRegion.x.num >= 0 /\ cropRegion.y.num >= 0)

\* ---- the color taxonomy as a table ----

\* The rows in their order. A row holds for a hue of one of its intervals
\* [from, to), a saturation of [sFrom, sBelow) and a lightness of
\* (lAbove, lBelow), in degrees and hundredths; its name is that of the first
\* bucket whose threshold the lightness exceeds, or rest.
taxonomy ==
  << [band |-> "Black", hue |-> {<< 0, 360 >>}, sFrom |-> 0, sBelow |-> 101, lAbove |-> -1, lBelow |-> 12,
      buckets |-> <<  >>, rest |-> "Black"],
     [band |-> "White", hue |-> {<< 0, 360 >>}, sFrom |-> 0, sBelow |-> 15, lAbove |-> 88, lBelow |-> 101,
      buckets |-> <<  >>, rest |-> "White"],
     [band |-> "Grayscale", hue |-> {<< 0, 360 >>}, sFrom |-> 0, sBelow |-> 8, lAbove |-> -1, lBelow |-> 101,
      buckets |-> << << 85, "Pearl White" >>, << 75, "Silver" >>, << 65, "Light Gray" >>, << 55, "Medium Gray" >>, << 45, "Gray" >>, << 35, "Dark Gray" >>, << 25, "Charcoal" >> >>, rest |-> "Black"],
     [band |-> "Brown/Tan", hue |-> {<< 15, 55 >>}, sFrom |-> 8, sBelow |-> 40, lAbove |-> -1, lBelow |-> 101,
      buckets |-> << << 70, "Cream" >>, << 60, "Beige" >>, << 50, "Tan" >>, << 40, "Light Brown" >>, << 30, "Brown" >>, << 20, "Dark Brown" >> >>, rest |-> "Chocolate"],
     [band |-> "Red", hue |-> {<< 340, 360 >>, << 0, 20 >>}, sFrom |-> 12, sBelow |-> 101, lAbove |-> -1, lBelow |-> 101,
      buckets |-> << << 75, "Light Pink" >>, << 65, "Rose" >>, << 55, "Light Red" >>, << 45, "Red" >>, << 35, "Crimson" >>, << 25, "Dark Red" >> >>, rest |-> "Maroon"],
     [band |-> "Pink/Magenta", hue |-> {<< 300, 340 >>}, sFrom |-> 15, sBelow |-> 101, lAbove |-> -1, lBelow |-> 101,
      buckets |-> << << 75, "Light Pink" >>, << 65, "Pink" >>, << 55, "Hot Pink" >>, << 45, "Fuchsia" >>, << 35, "Magenta" >> >>, rest |-> "Deep Pink"],
     [band |-> "Orange", hue |-> {<< 10, 40 >>}, sFrom |-> 20, sBelow |-> 101, lAbove |-> -1, lBelow |-> 101,
      buckets |-> << << 75, "Peach" >>, << 65, "Light Orange" >>, << 55, "Orange" >>, << 45, "Burnt Orange" >>, << 35, "Dark Orange" >> >>, rest |-> "Rust"],
     [band |-> "Yellow", hue |-> {<< 40, 70 >>}, sFrom |-> 20, sBelow |-> 101, lAbove |-> -1, lBelow |-> 101,
      buckets |-> << << 80, "Cream" >>, << 70, "Light Yellow" >>, << 60, "Yellow" >>, << 50, "Gold" >>, << 40, "Mustard" >> >>, rest |-> "Amber"],
     [band |-> "Green", hue |-> {<< 70, 90 >>}, sFrom |-> 10, sBelow |-> 101, lAbove |-> -1, lBelow |-> 101,
      buckets |-> << << 70, "Lime" >>, << 60, "Light Green" >>, << 50, "Green" >>, << 40, "Forest Green" >> >>, rest |-> "Dark Green"],
     [band |-> "Green", hue |-> {<< 90, 120 >>}, sFrom |-> 10, sBelow |-> 101, lAbove |-> -1, lBelow |-> 101,
      buckets |-> << << 70, "Mint Green" >>, << 60, "Light Green" >>, << 50, "Green" >>, << 40, "Emerald" >> >>, rest |-> "Dark Green"],
     [band |-> "Green", hue |-> {<< 120, 150 >>}, sFrom |-> 10, sBelow |-> 101, lAbove |-> -1, lBelow |-> 101,
      buckets |-> << << 70, "Seafoam" >>, << 60, "Light Green" >>, << 50, "Teal" >>, << 40, "Green" >> >>, rest |-> "Dark Teal"],
     [band |-> "Green", hue |-> {<< 150, 170 >>}, sFrom |-> 10, sBelow |-> 101, lAbove |-> -1, lBelow |-> 101,
      buckets |-> << << 60, "Turquoise" >>, << 50, "Cyan" >>, << 40, "Teal" >> >>, rest |-> "Dark Teal"],
     [band |-> "Blue", hue |-> {<< 170, 200 >>}, sFrom |-> 15, sBelow |-> 101, lAbove |-> -1, lBelow |-> 101,
      buckets |-> << << 70, "Light Blue" >>, << 60, "Sky Blue" >>, << 50, "Blue" >>, << 40, "Royal Blue" >>, << 30, "Navy" >> >>, rest |-> "Dark Navy"],
     [band |-> "Blue", hue |-> {<< 200, 230 >>}, sFrom |-> 15, sBelow |-> 101, lAbove |-> -1, lBelow |-> 101,
      buckets |-> << << 70, "Light Blue" >>, << 60, "Blue" >>, << 50, "Cobalt" >>, << 40, "Blue" >>, << 30, "Navy" >> >>, rest |-> "Midnight Blue"],
     [band |-> "Blue", hue |-> {<< 230, 260 >>}, sFrom |-> 15, sBelow |-> 101, lAbove |-> -1, lBelow |-> 101,
      buckets |-> << << 70, "Periwinkle" >>, << 60, "Light Blue" >>, << 50, "Blue" >>, << 40, "Indigo" >> >>, rest |-> "Dark Blue"],
     [band |-> "Purple", hue |-> {<< 260, 280 >>}, sFrom |-> 15, sBelow |-> 101, lAbove |-> -1, lBelow |-> 101,
      buckets |-> << << 70, "Lavender" >>, << 60, "Light Purple" >>, << 50, "Purple" >>, << 40, "Violet" >> >>, rest |-> "Dark Purple"],
     [band |-> "Purple", hue |-> {<< 280, 300 >>}, sFrom |-> 15, sBelow |-> 101, lAbove |-> -1, lBelow |-> 101,
      buckets |-> << << 70, "Light Purple" >>, << 60, "Purple" >>, << 50, "Plum" >>, << 40, "Purple" >> >>, rest |-> "Dark Purple"] >>

RowMatches(row, h, s, l) ==
  /\ \E iv \in row.hue : h.num >= iv[1] * h.den /\ h.num < iv[2] * h.den
  /\ s.num * 100 >= row.sFrom * s.den
  /\ s.num * 100 < row.sBelow * s.den
  /\ l.num * 100 > row.lAbove * l.den
  /\ l.num * 100 < row.lBelow * l.den

MatchingRows(h, s, l) ==
  {i \in 1..Len(taxonomy) : RowMatches(taxonomy[i], h, s, l)}

RECURSIVE BucketName(_, _, _)
BucketName(buckets, rest, l) ==
  IF buckets = << >> THEN rest
  ELSE IF l.num * 100 > Head(buckets)[1] * l.den THEN Head(buckets)[2]
  ELSE BucketName(Tail(buckets), rest, l)

FirstMatch(h, s, l) ==
  LET m == MatchingRows(h, s, l)
  IN  IF m = {} THEN "Mixed"
      ELSE LET i == CHOOSE j \in m : \A k \in m : j <= k
           IN  BucketName(taxonomy[i].buckets, taxonomy[i].rest, l)

\* hue, saturation and lightness of the pixel
pixelHsl == rgbToHsl(pixel.r, pixel.g, pixel.b)

pixelRows == MatchingRows(pixelHsl[1], pixelHsl[2], pixelHsl[3])

\* C24: the name a pixel is given is the name of the first row of the table
\* that its hue, saturation and lightness match, and it is Mixed exactly when
\* no row matches.
C24_FirstMatchingRowNames ==
  (pixelColorName # "") =>
    /\ pixelColorName = FirstMatch(pixelHsl[1], pixelHsl[2], pixelHsl[3])
    /\ (pixelColorName = "Mixed") <=> (pixelRows = {})

\* C24 witness: a pixel that the Brown/Tan, the Red and the Orange row match
\* has been given its name.
C24_Witness ==
  /\ pixelColorName # ""
  /\ {4, 5, 7} \subseteq pixelRows

\* C24 witness of the other side: a pixel no row matches has been named Mixed.
C24_WitnessMixed ==
  /\ pixelColorName = "Mixed"
  /\ pixelRows = {}

====
